---------------------------- MODULE Spec2Model ----------------------------
(***************************************************************************)
(* Austerity: the pipe-based hub of ass3 (hub.c, lib/game.c) and the       *)
(* threaded game server of ass4 (server.c).                                *)
(*                                                                         *)
(* Arrays keep the C indices: token and price arrays are functions over    *)
(* 0..3 (PURPLE, BROWN, YELLOW, RED) and 0..4 (with WILD = 4); a player    *)
(* id and a card id are 0-based.  The board and the deck are sequences,    *)
(* so card id i is element i + 1.                                          *)
(***************************************************************************)
EXTENDS Integers, Sequences, FiniteSets, TLC

VARIABLES
    hub,            \* ass3: the hub's Game struct and run_game_loop locals
    hubLast,        \* ass3: the last message handle_input classified
    srv,            \* ass4: Server fields timeout, statfile entries, acceptors
    sig,            \* ass4: sigintReceived and sigtermReceived
    locks,          \* ass4: joinLobbyLock and shutdownLock, each with its holder
    lobbies,        \* ass4: server->lobbies
    games,          \* ass4: server->games with each game's GameData
    driver,         \* ass4: per game, the locals and position of its game_thread
    conns,          \* ass4: per connection, its handle_connection thread and socket
    main,           \* ass4: the main thread's position in main and run_server
    hist,           \* ass4: per game, what has been written to its players
    probe           \* one call of a function on its own: arguments and result

hubVars == <<hub, hubLast>>

srvVars == <<srv, sig, locks, lobbies, games, driver, conns, main, hist>>

vars == <<hub, hubLast, srv, sig, locks, lobbies, games, driver, conns, main, hist, probe>>

(***************************************************************************)
(* Program constants (ass3/lib/game.h).                                    *)
(***************************************************************************)
NUM_COLOURS == 4
TOKEN_SLOTS == 5
MAX_CARDS_ON_BOARD == 8
TOKENS_PER_TAKE == 3
WILD == 4

(***************************************************************************)
(* Bounds of the model.                                                    *)
(***************************************************************************)
\* a player stops asking for wilds once holding this many
MaxWild == 1
\* largest count a player writes in one slot of a take or purchase message
MaxCount == 1

Colours == 0 .. (NUM_COLOURS - 1)
Slots == 0 .. (TOKEN_SLOTS - 1)

Zero4 == [c \in Colours |-> 0]
Zero5 == [s \in Slots |-> 0]

Price(p, b, y, r) == [c \in Colours |-> CASE c = 0 -> p [] c = 1 -> b [] c = 2 -> y [] OTHER -> r]

Card(d, v, pr) == [discount |-> d, value |-> v, price |-> pr]

(***************************************************************************)
(* ass3/lib/game.c: the rules.  A player is a record with totalPoints,     *)
(* discounts and tokens; a card a record with discount, value and price.   *)
(***************************************************************************)

\* tokensNeeded = price - discount, made non-negative (game.c:311-314, 376-377)
tokensNeeded(card, player, i) ==
    LET n == card.price[i] - player.discounts[i]
    IN  IF n < 0 THEN 0 ELSE n

RECURSIVE afford_loop(_, _, _, _)
afford_loop(card, player, i, wildsUsed) ==
    IF i = NUM_COLOURS THEN TRUE
    ELSE LET needed == tokensNeeded(card, player, i)
         IN  IF player.tokens[i] >= needed
             THEN afford_loop(card, player, i + 1, wildsUsed)
             ELSE IF /\ player.tokens[WILD] > 0
                     /\ player.tokens[i] + (player.tokens[WILD] - wildsUsed) >= needed
                  THEN afford_loop(card, player, i + 1,
                                   wildsUsed + (needed - player.tokens[i]))
                  ELSE FALSE

\* can_player_afford_card without wildsUsed: every colour short of tokens
\* counts on all of the player's wilds
afford_wilds_not_counted(player, card) ==
    \A i \in Colours :
        \/ player.tokens[i] >= tokensNeeded(card, player, i)
        \/ /\ player.tokens[WILD] > 0
           /\ player.tokens[i] + player.tokens[WILD] >= tokensNeeded(card, player, i)

can_player_afford_card(player, card) == afford_loop(card, player, 0, 0)

RECURSIVE choose_loop(_, _, _, _)
choose_loop(card, player, i, dest) ==
    IF i = NUM_COLOURS THEN dest
    ELSE LET needed == tokensNeeded(card, player, i)
         IN  IF needed > player.tokens[i]
             THEN choose_loop(card, player, i + 1,
                      [dest EXCEPT ![WILD] = @ + (needed - player.tokens[i]),
                                   ![i] = player.tokens[i]])
             ELSE choose_loop(card, player, i + 1, [dest EXCEPT ![i] = needed])

\* choose_tokens_to_buy_card without line 320: on a shortfall the owned tokens
\* of that colour are not spent
choose_tokens_drops_owned(player, card) ==
    [s \in Slots |->
        IF s = WILD
        THEN choose_loop(card, player, 0, Zero5)[WILD]
        ELSE IF tokensNeeded(card, player, s) > player.tokens[s]
             THEN 0
             ELSE tokensNeeded(card, player, s)]

choose_tokens_to_buy_card(player, card) == choose_loop(card, player, 0, Zero5)

can_tokens_buy_card(player, card, tokens) ==
    /\ can_player_afford_card(player, card)
    /\ LET correctTokens == choose_tokens_to_buy_card(player, card)
       IN  \A i \in Slots : correctTokens[i] = tokens[i]

RECURSIVE take_loop(_, _, _, _)
take_loop(piles, tokens, i, numTaken) ==
    IF i = NUM_COLOURS THEN numTaken = TOKENS_PER_TAKE
    ELSE IF tokens[i] = 1 /\ piles[i] > 0
         THEN take_loop(piles, tokens, i + 1, numTaken + 1)
         ELSE IF tokens[i] # 0 THEN FALSE
              ELSE take_loop(piles, tokens, i + 1, numTaken)

\* is_valid_token_take without the look at the board's piles
take_piles_not_checked(piles, tokens) ==
    /\ \A i \in Colours : tokens[i] \in {0, 1}
    /\ Cardinality({i \in Colours : tokens[i] = 1}) = TOKENS_PER_TAKE

is_valid_token_take(piles, tokens) == take_loop(piles, tokens, 0, 0)

is_game_over(g) ==
    \E p \in 0 .. (g.numPlayers - 1) : g.players[p].totalPoints >= g.maxPoints

add_card_to_board(g, card) == [g EXCEPT !.cards = Append(@, card)]

\* take_card_from_board without the shift: the count alone drops by one
take_card_not_shifted(g, cardId) ==
    [g EXCEPT !.cards = SubSeq(@, 1, Len(@) - 1)]

\* the cards above cardId move down one place, the count drops by one
take_card_from_board(g, cardId) ==
    [g EXCEPT !.cards = [k \in 1 .. (Len(@) - 1) |->
                            IF k <= cardId THEN @[k] ELSE @[k + 1]]]

\* player_purchased_card without the line that adds to the board's piles
purchase_tokens_not_returned(g, playerId, cardId, tokens) ==
    LET card == g.cards[cardId + 1]
        g1 == take_card_from_board(g, cardId)
    IN  [g1 EXCEPT
            !.players[playerId].tokens = [s \in Slots |-> @[s] - tokens[s]],
            !.players[playerId].discounts[card.discount] = @ + 1,
            !.players[playerId].totalPoints = @ + card.value]

\* player_purchased_card without the line that counts the card's discount
purchase_discount_not_counted(g, playerId, cardId, tokens) ==
    LET card == g.cards[cardId + 1]
        g1 == take_card_from_board(g, cardId)
    IN  [g1 EXCEPT
            !.players[playerId].tokens = [s \in Slots |-> @[s] - tokens[s]],
            !.tokens = [c \in Colours |-> @[c] + tokens[c]],
            !.players[playerId].totalPoints = @ + card.value]

player_purchased_card(g, playerId, cardId, tokens) ==
    LET card == g.cards[cardId + 1]
        g1 == take_card_from_board(g, cardId)
    IN  [g1 EXCEPT
            !.players[playerId].tokens = [s \in Slots |-> @[s] - tokens[s]],
            !.tokens = [c \in Colours |-> @[c] + tokens[c]],
            !.players[playerId].discounts[card.discount] = @ + 1,
            !.players[playerId].totalPoints = @ + card.value]

player_took_tokens(g, playerId, tokens) ==
    [g EXCEPT
        !.players[playerId].tokens =
            [s \in Slots |-> IF s = WILD THEN @[s] ELSE @[s] + tokens[s]],
        !.tokens = [c \in Colours |-> @[c] - tokens[c]]]

player_took_wild(g, playerId) ==
    [g EXCEPT !.players[playerId].tokens[WILD] = @ + 1]


(***************************************************************************)
(* ass3/hub.c: the hub.  hub holds the Game struct (tokens, cards, deck,   *)
(* players, numPlayers, maxPoints) and the locals of run_game_loop         *)
(* (curPlayer, alreadyAttempted, maxPointsReached), the loop's Result and  *)
(* the hub's position pc: "loop" (a dowhat is due), "exit" (exit_game is   *)
(* running) or "done".                                                     *)
(***************************************************************************)
\* the hub refuses to start with fewer than two players (argc < 6)
MIN_HUB_PLAYERS == 2

HubPlayers == MIN_HUB_PLAYERS

\* hub.c main: the tokens argument the hub is started with
HubInitialTokens == 1

HubDeck ==
    << Card(0, 1, Price(1, 0, 0, 0)),
       Card(1, 0, Price(0, 1, 0, 0)),
       Card(0, 1, Price(2, 1, 0, 0)) >>

NewPlayer == [totalPoints |-> 0, discounts |-> Zero4, tokens |-> Zero5]

\* the messages a player writes, as handle_input's sscanf reads them
WildMsg == [type |-> "wild"]
TakeMsgs == [type : {"take"}, tokens : [Colours -> 0 .. MaxCount]]
CardIds == -1 .. Len(HubDeck)
PurchaseMsgs == [type : {"purchase"}, cardId : CardIds, tokens : [Slots -> 0 .. MaxCount]]
OtherMsg == [type |-> "other"]

\* hub.c take_card_from_deck: nothing when the board is full or the deck empty
take_card_from_deck(g) ==
    IF Len(g.cards) = MAX_CARDS_ON_BOARD \/ g.deck = <<>>
    THEN g
    ELSE [add_card_to_board(g, Head(g.deck)) EXCEPT !.deck = Tail(@)]

RECURSIVE draw_times(_, _)
draw_times(g, n) == IF n = 0 THEN g ELSE draw_times(take_card_from_deck(g), n - 1)

\* hub.c start_new_game
start_new_game(g, initialTokens, maxPoints) ==
    draw_times([g EXCEPT !.maxPoints = maxPoints,
                         !.tokens = [c \in Colours |-> initialTokens]],
               MAX_CARDS_ON_BOARD)

\* hub.c handle_card_purchase
handle_card_purchase(g, playerId, cardId, tokens) ==
    take_card_from_deck(player_purchased_card(g, playerId, cardId, tokens))

\* the purchase branch of handle_input accepts the message
purchase_accepted(g, playerId, m) ==
    /\ m.cardId >= 0
    /\ m.cardId < Len(g.cards)
    /\ can_tokens_buy_card(g.players[playerId], g.cards[m.cardId + 1], m.tokens)

\* the take branch of handle_input accepts the message
take_accepted(g, m) == is_valid_token_take(g.tokens, m.tokens)

\* hub.c handle_input returns true for message m
input_ok(g, playerId, m) ==
    CASE m.type = "wild" -> TRUE
      [] m.type = "take" -> take_accepted(g, m)
      [] m.type = "purchase" -> purchase_accepted(g, playerId, m)
      [] OTHER -> FALSE

\* handle_input handing a take it turns down to handle_token_take all the same
handle_input_takes_anyway(g, playerId, m) ==
    IF ~input_ok(g, playerId, m)
    THEN [ok |-> FALSE,
          game |-> IF m.type = "take" THEN player_took_tokens(g, playerId, m.tokens)
                   ELSE g]
    ELSE [ok |-> TRUE,
          game |-> CASE m.type = "wild" -> player_took_wild(g, playerId)
                     [] m.type = "take" -> player_took_tokens(g, playerId, m.tokens)
                     [] OTHER -> handle_card_purchase(g, playerId, m.cardId, m.tokens)]

\* hub.c handle_input: [ok, game]
handle_input(g, playerId, m) ==
    IF ~input_ok(g, playerId, m)
    THEN [ok |-> FALSE, game |-> g]
    ELSE [ok |-> TRUE,
          game |-> CASE m.type = "wild" -> player_took_wild(g, playerId)
                     [] m.type = "take" -> player_took_tokens(g, playerId, m.tokens)
                     [] OTHER -> handle_card_purchase(g, playerId, m.cardId, m.tokens)]

HubGame ==
    [tokens |-> hub.tokens, cards |-> hub.cards, deck |-> hub.deck,
     players |-> hub.players, numPlayers |-> hub.numPlayers,
     maxPoints |-> hub.maxPoints]

\* the key of a server whose clients' first lines are not followed
ServerKey == <<"k">>

\* no function is being called on its own
ProbeOff == probe = [pc |-> "off"]

\* the hub of ass3 is not running
HubOff ==
    /\ hub = [pc |-> "off"]
    /\ hubLast = [type |-> "none", ok |-> FALSE, wilds |-> 0, sent |-> <<>>]

\* the server of ass4 is not running
ServerOff ==
    /\ srv = [timeout |-> 0, statfile |-> <<>>, accepting |-> FALSE, key |-> ServerKey]
    /\ sig = [sigintReceived |-> FALSE, sigtermReceived |-> FALSE, sigints |-> 0]
    /\ locks = [joinLobbyLock |-> 0, shutdownLock |-> "free"]
    /\ lobbies = <<>>
    /\ games = <<>>
    /\ driver = <<>>
    /\ conns = <<>>
    /\ main = [pc |-> "off", i |-> 0, exit |-> "NONE"]
    /\ hist = <<>>

HubInit ==
    /\ ServerOff
    /\ ProbeOff
    /\ \E initialTokens \in {HubInitialTokens}, maxPoints \in {2} :
          LET g == start_new_game(
                      [tokens |-> Zero4, cards |-> <<>>, deck |-> HubDeck,
                       players |-> [p \in 0 .. (HubPlayers - 1) |-> NewPlayer],
                       numPlayers |-> HubPlayers, maxPoints |-> 0],
                      initialTokens, maxPoints)
          IN  hub = [tokens |-> g.tokens, cards |-> g.cards, deck |-> g.deck,
                     players |-> g.players, numPlayers |-> g.numPlayers,
                     maxPoints |-> g.maxPoints,
                     pc |-> "loop", curPlayer |-> 0, alreadyAttempted |-> FALSE,
                     maxPointsReached |-> FALSE, result |-> "NONE"]
    /\ hubLast = [type |-> "none", ok |-> FALSE, wilds |-> 0, sent |-> <<>>]

\* send_message_all writing to the first player only
send_message_first(g, msg) == << [to |-> 0, msg |-> msg] >>

\* hub.c send_message_all: the line msg written and flushed to each player
\* in turn
send_message_all(g, msg) == [i \in 1 .. g.numPlayers |-> [to |-> i - 1, msg |-> msg]]

\* hub.c send_dowhat
send_dowhat(playerId) == << [to |-> playerId, msg |-> [type |-> "dowhat"]] >>

\* the newcard line of take_card_from_deck, if it draws
newcard_lines(g) ==
    IF Len(g.cards) = MAX_CARDS_ON_BOARD \/ g.deck = <<>>
    THEN <<>>
    ELSE send_message_all(g, [type |-> "newcard", card |-> Head(g.deck)])

\* the lines handle_input writes for message m from playerId
input_lines(g, playerId, m) ==
    IF ~input_ok(g, playerId, m) THEN <<>>
    ELSE CASE m.type = "wild" ->
                 send_message_all(g, [type |-> "wild", player |-> playerId])
           [] m.type = "take" ->
                 send_message_all(g, [type |-> "took", player |-> playerId,
                                      tokens |-> m.tokens])
           [] OTHER ->
                 send_message_all(g, [type |-> "purchased", player |-> playerId,
                                      cardId |-> m.cardId, tokens |-> m.tokens])
                 \o newcard_lines(player_purchased_card(g, playerId, m.cardId,
                                                        m.tokens))

\* what hubLast records of message m from playerId: its kind, handle_input's
\* answer, the wilds of a purchase, and the lines written from the dowhat on
HubSeen(m, playerId, ok, lines) ==
    [type |-> m.type, ok |-> ok,
     wilds |-> IF m.type = "purchase" THEN m.tokens[WILD] ELSE 0,
     sent |-> send_dowhat(playerId) \o lines]

\* one pass of run_game_loop's inner while: dowhat, the reply m, handle_input,
\* and on a valid reply the checks that close the player's turn
hub_step(m) ==
    /\ hub.pc = "loop"
    /\ \E r \in {handle_input(HubGame, hub.curPlayer, m)} :
       LET p == hub.curPlayer
           g == r.game
           over == hub.maxPointsReached \/ is_game_over(g)
           h == [hub EXCEPT !.tokens = g.tokens, !.cards = g.cards,
                            !.deck = g.deck, !.players = g.players]
       IN  /\ UNCHANGED srvVars
           /\ hubLast' = HubSeen(m, p, r.ok,
                               IF r.ok THEN input_lines(HubGame, p, m) ELSE <<>>)
           /\ IF ~r.ok
              THEN IF hub.alreadyAttempted
                   THEN hub' = [h EXCEPT !.pc = "exit", !.result = "BAD_PROTOCOL"]
                   ELSE hub' = [h EXCEPT !.alreadyAttempted = TRUE]
              ELSE IF Len(g.cards) = 0
                   THEN hub' = [h EXCEPT !.maxPointsReached = over,
                                         !.pc = "exit", !.result = "NORMAL"]
                   ELSE IF p + 1 < hub.numPlayers
                        THEN hub' = [h EXCEPT !.maxPointsReached = over,
                                              !.curPlayer = p + 1,
                                              !.alreadyAttempted = FALSE]
                        ELSE IF over
                             THEN hub' = [h EXCEPT !.maxPointsReached = over,
                                                   !.curPlayer = hub.numPlayers,
                                                   !.pc = "exit",
                                                   !.result = "NORMAL"]
                             ELSE hub' = [h EXCEPT !.curPlayer = 0,
                                                   !.alreadyAttempted = FALSE]

\* the pass with nothing else of the model looking on
hub_turn(m) == hub_step(m) /\ UNCHANGED probe

HubWild ==
    /\ hub.pc = "loop"
    /\ hub.players[hub.curPlayer].tokens[WILD] < MaxWild
    /\ hub_turn(WildMsg)

HubTake ==
    \E m \in TakeMsgs :
        /\ hub.pc = "loop"
        /\ input_ok(HubGame, hub.curPlayer, m)
        /\ hub_turn(m)

HubPurchase ==
    \E m \in PurchaseMsgs :
        /\ hub.pc = "loop"
        /\ input_ok(HubGame, hub.curPlayer, m)
        /\ hub_turn(m)

\* a take handle_input turns down
HubBadTake ==
    \E m \in TakeMsgs :
        /\ hub.pc = "loop"
        /\ ~input_ok(HubGame, hub.curPlayer, m)
        /\ hub_turn(m)

\* a purchase handle_input turns down
HubBadPurchase ==
    \E m \in PurchaseMsgs :
        /\ hub.pc = "loop"
        /\ ~input_ok(HubGame, hub.curPlayer, m)
        /\ hub_turn(m)

\* a message that is neither wild, take nor purchase
HubOther == hub_turn(OtherMsg)

\* get_input fails: the player closed its end
HubEOF ==
    /\ hub.pc = "loop"
    /\ hub' = [hub EXCEPT !.pc = "exit", !.result = "PLAYER_DISCONNECT"]
    /\ UNCHANGED hubLast
    /\ UNCHANGED srvVars
    /\ UNCHANGED probe

\* exit_game: kill_players sends eog to every player
HubExit ==
    /\ hub.pc = "exit"
    /\ hub' = [hub EXCEPT !.pc = "done"]
    /\ UNCHANGED hubLast
    /\ UNCHANGED srvVars
    /\ UNCHANGED probe

HubNext ==
    \/ HubWild
    \/ HubTake
    \/ HubPurchase
    \/ HubBadTake
    \/ HubBadPurchase
    \/ HubOther
    \/ HubEOF
    \/ HubExit

SpecHub == HubInit /\ [][HubNext]_vars

(***************************************************************************)
(* The hub with a deck longer than the board, so that a purchase draws.    *)
(***************************************************************************)
BoardDeck ==
    << Card(0, 0, Price(0, 0, 0, 0)),
       Card(1, 1, Price(0, 0, 0, 0)),
       Card(2, 1, Price(0, 0, 0, 0)),
       Card(3, 1, Price(0, 0, 0, 1)),
       Card(0, 1, Price(1, 0, 0, 0)),
       Card(1, 1, Price(0, 1, 0, 0)),
       Card(2, 1, Price(0, 0, 1, 0)),
       Card(3, 1, Price(0, 0, 0, 1)),
       Card(0, 1, Price(1, 1, 0, 0)) >>

\* the messages the player in turn writes: any take, a wild, something else,
\* and for each place on and next to the board the purchase with the tokens
\* choose_tokens_to_buy_card picks and the purchase with none
BoardMsgs(g, playerId) ==
    (IF g.players[playerId].tokens[WILD] < MaxWild THEN {WildMsg} ELSE {})
    \cup {OtherMsg}
    \cup TakeMsgs
    \cup UNION { { [type |-> "purchase", cardId |-> i, tokens |-> t] :
                     t \in IF i >= 0 /\ i < Len(g.cards)
                           THEN {choose_tokens_to_buy_card(g.players[playerId],
                                                           g.cards[i + 1]), Zero5}
                           ELSE {Zero5} } :
                 i \in -1 .. MAX_CARDS_ON_BOARD }

BoardInit ==
    /\ ServerOff
    /\ ProbeOff
    /\ \E initialTokens \in {HubInitialTokens}, maxPoints \in {1} :
          LET g == start_new_game(
                      [tokens |-> Zero4, cards |-> <<>>, deck |-> BoardDeck,
                       players |-> [p \in 0 .. (HubPlayers - 1) |-> NewPlayer],
                       numPlayers |-> HubPlayers, maxPoints |-> 0],
                      initialTokens, maxPoints)
          IN  hub = [tokens |-> g.tokens, cards |-> g.cards, deck |-> g.deck,
                     players |-> g.players, numPlayers |-> g.numPlayers,
                     maxPoints |-> g.maxPoints,
                     pc |-> "loop", curPlayer |-> 0, alreadyAttempted |-> FALSE,
                     maxPointsReached |-> FALSE, result |-> "NONE"]
    /\ hubLast = [type |-> "none", ok |-> FALSE, wilds |-> 0, sent |-> <<>>]

\* one pass of run_game_loop's inner while with any of the messages
BoardTurn ==
    /\ hub.pc = "loop"
    /\ \E m \in BoardMsgs(HubGame, hub.curPlayer) : hub_turn(m)

BoardNext ==
    \/ BoardTurn
    \/ HubEOF
    \/ HubExit

SpecBoard == BoardInit /\ [][BoardNext]_vars

(***************************************************************************)
(* The rules of lib/game.c called on their own: the arguments are drawn    *)
(* at the start, the one step is the call.                                 *)
(***************************************************************************)
\* most tokens of one kind a player holds
MaxHeld == 2
\* highest price of a card in one colour
MaxPrice == 2

\* a player's discounts: none, or one in every colour
ProbeDiscounts == {Zero4, [c \in Colours |-> 1]}

AffordInit ==
    /\ HubOff
    /\ ServerOff
    /\ \E tokens \in [Slots -> 0 .. MaxHeld], discounts \in ProbeDiscounts,
          price \in [Colours -> 0 .. MaxPrice] :
          probe = [pc |-> "call",
                   player |-> [totalPoints |-> 0, discounts |-> discounts,
                               tokens |-> tokens],
                   card |-> Card(0, 1, price),
                   result |-> FALSE]

\* the call of can_player_afford_card
AffordCall ==
    /\ probe.pc = "call"
    /\ probe' = [probe EXCEPT !.pc = "returned",
                              !.result = can_player_afford_card(probe.player, probe.card)]
    /\ UNCHANGED <<hubVars, srvVars>>

SpecAfford == AffordInit /\ [][AffordCall]_vars

\* largest pile of one colour on the board
MaxPile == 1
\* largest count written in one place of a take message
MaxTake == 2

\* the counts sscanf reads with %d: negative ones too
TakeCounts == [Colours -> -1 .. MaxTake]

TakeInit ==
    /\ HubOff
    /\ ServerOff
    /\ \E piles \in [Colours -> 0 .. MaxPile], tokens \in TakeCounts :
          probe = [pc |-> "call",
                   game |-> [tokens |-> piles],
                   msg |-> [type |-> "take", tokens |-> tokens],
                   result |-> FALSE]

\* the call of handle_input with a take message of four numbers
TakeCall ==
    /\ probe.pc = "call"
    /\ probe' = [probe EXCEPT !.pc = "returned",
                              !.result = take_accepted(probe.game, probe.msg)]
    /\ UNCHANGED <<hubVars, srvVars>>

SpecTake == TakeInit /\ [][TakeCall]_vars




(***************************************************************************)
(* ass4/server.c: the game server.  A game is a record with name, counter, *)
(* playerCount, players, deck, board, tokenCount, winScore and the fields  *)
(* of its GameData (finished, initialTokens, reconnectingPlayer).  A       *)
(* player of a game is a record with name, playerId, score, discounts,     *)
(* tokens and conn, the connection whose streams are the player's          *)
(* fromPlayer and toPlayer.  Game id i is element i + 1 of games; game and *)
(* player names are numbers.                                               *)
(***************************************************************************)
\* number of reconnecting clients
MaxReconnects == 1

\* the smallest game the course library lets a statfile ask for
MIN_PLAYERS == 2

\* the library's limit on the players of one game
MAX_PLAYERS == 26

\* the board the course library deals
BOARD_SIZE == MAX_CARDS_ON_BOARD

ServerDeck ==
    << Card(0, 1, Price(1, 0, 0, 0)),
       Card(1, 0, Price(0, 1, 0, 0)) >>

GameIds == 1 .. Len(games)

PlayerIds(G) == 0 .. (G.playerCount - 1)

\* course library: a card is face up
lib_cards_left(G) == Len(G.board) > 0

\* course library: someone has the winning score, or the board is empty
lib_is_game_over(G) ==
    \/ \E p \in PlayerIds(G) : G.players[p].score >= G.winScore
    \/ Len(G.board) = 0

\* course library: the top card of the deck goes face up
lib_draw_card(G) ==
    IF Len(G.board) = BOARD_SIZE \/ G.deck = <<>>
    THEN G
    ELSE [G EXCEPT !.board = Append(@, Head(G.deck)), !.deck = Tail(@)]

RECURSIVE lib_draw_times(_, _)
lib_draw_times(G, n) == IF n = 0 THEN G ELSE lib_draw_times(lib_draw_card(G), n - 1)

\* course library: the reply m of player p is a legal move
lib_message_ok(G, p, m) ==
    CASE m.type = "wild" -> TRUE
      [] m.type = "take" -> is_valid_token_take(G.tokenCount, m.tokens)
      [] m.type = "purchase" ->
            /\ m.cardId >= 0
            /\ m.cardId < Len(G.board)
            /\ can_tokens_buy_card(G.players[p], G.board[m.cardId + 1], m.tokens)
      [] OTHER -> FALSE

lib_handle_wild_message(G, p) ==
    [G EXCEPT !.players[p].tokens[WILD] = @ + 1]

lib_handle_take_message(G, p, m) ==
    [G EXCEPT
        !.players[p].tokens =
            [s \in Slots |-> IF s = WILD THEN @[s] ELSE @[s] + m.tokens[s]],
        !.tokenCount = [c \in Colours |-> @[c] - m.tokens[c]]]

lib_handle_purchase_message(G, p, m) ==
    LET card == G.board[m.cardId + 1]
    IN  lib_draw_card(
            [G EXCEPT
                !.board = [k \in 1 .. (Len(@) - 1) |->
                              IF k <= m.cardId THEN @[k] ELSE @[k + 1]],
                !.players[p].tokens = [s \in Slots |-> @[s] - m.tokens[s]],
                !.tokenCount = [c \in Colours |-> @[c] + m.tokens[c]],
                !.players[p].discounts[card.discount] = @ + 1,
                !.players[p].score = @ + card.value])

\* do_what's switch on a legal reply
apply_message(G, p, m) ==
    CASE m.type = "wild" -> lib_handle_wild_message(G, p)
      [] m.type = "take" -> lib_handle_take_message(G, p, m)
      [] OTHER -> lib_handle_purchase_message(G, p, m)

\* the token counts a client writes in a purchase of card cardId
Spends(G, p, cardId) ==
    IF cardId >= 0 /\ cardId < Len(G.board)
    THEN {Zero5, choose_tokens_to_buy_card(G.players[p], G.board[cardId + 1])}
    ELSE {Zero5}

\* the takes a client writes: one count for each of the first three colours
TakeReplies ==
    { m \in TakeMsgs :
        /\ m.tokens[NUM_COLOURS - 1] = 0
        /\ \A c \in Colours : c < TOKENS_PER_TAKE => m.tokens[c] = m.tokens[0] }

\* the replies player p of game G may write to a dowhat
Replies(G, p) ==
    (IF G.players[p].tokens[WILD] < MaxWild THEN {WildMsg} ELSE {})
    \cup {OtherMsg}
    \cup TakeReplies
    \cup UNION { { [type |-> "purchase", cardId |-> i, tokens |-> t] :
                     t \in Spends(G, p, i) } : i \in -1 .. Len(G.board) }

\* start_game's Game for a closed lobby, with add_game_to_server's GameData;
\* rp is what the malloc'ed reconnectingPlayer happens to hold
NewGame(name, counter, members, details, rp) ==
    [name |-> name, counter |-> counter, playerCount |-> Len(members),
     players |-> [p \in 0 .. (Len(members) - 1) |->
                    [name |-> members[p + 1].name, playerId |-> p, score |-> 0,
                     discounts |-> Zero4, tokens |-> Zero5,
                     conn |-> members[p + 1].conn]],
     deck |-> ServerDeck, board |-> <<>>,
     tokenCount |-> [c \in Colours |-> details.tokens],
     winScore |-> details.points,
     finished |-> FALSE, initialTokens |-> details.tokens,
     reconnectingPlayer |-> rp]

\* a game_thread that pthread_create has just started
NewDriver ==
    [pc |-> "start", player |-> 0, hadAttempt |-> FALSE, err |-> "NONE",
     gameStopped |-> FALSE, waitStatus |-> "NONE", handle |-> 0,
     prevReply |-> "none", lastReply |-> "none", who |-> 0,
     reconnected |-> FALSE]

\* what is remembered of a game: the closing messages written to its players,
\* a dowhat written after it finished, the reconnects answered yes, the
\* lobby it came from, whether a SIGINT arrived while it was running, the
\* first OPENING lines its driver wrote to each player, and every rid line
NewHist ==
    [term |-> <<>>, late |-> FALSE, accepted |-> {}, lobby |-> 0, sigint |-> FALSE,
     opening |-> <<>>, rids |-> <<>>]

StatfileEntry(port, tokens, points, players) ==
    [port |-> port, tokens |-> tokens, points |-> points, players |-> players]

\* the ConnectionThreadArg details of a connection no port has accepted
NoDetails == StatfileEntry(0, 0, 0, 0)

\* a connection: pc is the position of its handle_connection thread
NewConn ==
    [pc |-> "idle", details |-> NoDetails, gameName |-> 0, playerName |-> 0,
     lobby |-> 0, game |-> 0, pid |-> 0, peerClosed |-> FALSE, closes |-> 0]

\* the handles send_message_game_players writes to
Handles(G) == { G.players[p].conn : p \in PlayerIds(G) }

\* close_players: every player's streams are closed once more
close_players(cs, G) ==
    [c \in DOMAIN cs |->
        IF c \in Handles(G) THEN [cs[c] EXCEPT !.closes = @ + 1] ELSE cs[c]]

\* the letter run_game_loop puts in disco and invalid: 'A' + (player - 1)
offender_unadjusted(player) == player

offender(player) == player - 1

\* the for-condition of run_game_loop with the score test added to it
for_stops_on_score(G, player, gameStopped) ==
    /\ player < G.playerCount
    /\ lib_cards_left(G)
    /\ ~gameStopped
    /\ ~lib_is_game_over(G)

\* the for-condition of run_game_loop without its test of the board
for_ignores_board(G, player, gameStopped) ==
    /\ player < G.playerCount
    /\ ~gameStopped

\* the for-condition of run_game_loop
for_continues(G, player, gameStopped) ==
    /\ player < G.playerCount
    /\ lib_cards_left(G)
    /\ ~gameStopped

\* the while-condition of run_game_loop
while_continues(G, gameStopped) == ~lib_is_game_over(G) /\ ~gameStopped

\* where run_game_loop goes once the for-loop has stepped to player:
\* the next turn, the closing section after the loops, or the outer loop
\* turning without a turn to give
next_position(G, player, gameStopped) ==
    IF for_continues(G, player, gameStopped)
    THEN [pc |-> "turn", player |-> player]
    ELSE IF while_continues(G, gameStopped)
         THEN IF for_continues(G, 0, gameStopped)
              THEN [pc |-> "turn", player |-> 0]
              ELSE [pc |-> "spin", player |-> 0]
         ELSE [pc |-> "final", player |-> player]

\* the for-loop of run_game_loop without its player++
end_turn_same_player(D, G, err, gameStopped) ==
    LET pos == next_position(G, D.player, gameStopped)
    IN  [D EXCEPT !.pc = pos.pc, !.player = pos.player, !.err = err,
                  !.gameStopped = gameStopped,
                  !.hadAttempt = IF pos.pc = "turn" THEN FALSE ELSE @]

\* the driver D leaves the inner while(true) of its turn with err and gameStopped
end_turn(D, G, err, gameStopped) ==
    LET pos == next_position(G, D.player + 1, gameStopped)
    IN  [D EXCEPT !.pc = pos.pc, !.player = pos.player, !.err = err,
                  !.gameStopped = gameStopped,
                  !.hadAttempt = IF pos.pc = "turn" THEN FALSE ELSE @]

\* the process has not exited
Running == main.pc # "exited"

\* the reply r joins what the driver has seen of the current turn
note(D, r) ==
    [D EXCEPT !.prevReply = D.lastReply, !.lastReply = r, !.who = D.player]

\* pthread_cond_signal on game g's reconnectWait: a driver inside
\* pthread_cond_timedwait wakes with status 0, otherwise nothing happens
cond_signal(dr, g) ==
    IF dr[g].pc = "waiting"
    THEN [dr EXCEPT ![g].pc = "woken", ![g].waitStatus = "OK"]
    ELSE dr

\* send_message_game_players of a closing message, as hist records it
Broadcast(G, kind, letter, by) ==
    [kind |-> kind, letter |-> letter, by |-> by, to |-> Handles(G)]

\* a line written to the stream of player i of game G
written(G, i, msg) == [slot |-> i, to |-> G.players[i].conn, msg |-> msg]

\* game_thread's lines for player i with tokens written before playinfo
greeting_tokens_first(G, i) ==
    << [type |-> "rid", name |-> G.name, counter |-> G.counter, id |-> i],
       [type |-> "tokens", count |-> G.tokenCount[0]],
       [type |-> "playinfo", letter |-> i, count |-> G.playerCount] >>

\* game_thread's lines for player i: rid, playinfo and tokens
greeting(G, i) ==
    << [type |-> "rid", name |-> G.name, counter |-> G.counter, id |-> i],
       [type |-> "playinfo", letter |-> i, count |-> G.playerCount],
       [type |-> "tokens", count |-> G.tokenCount[0]] >>

\* game_thread's first loop, from player i on
RECURSIVE greetings(_, _)
greetings(G, i) ==
    IF i >= G.playerCount THEN <<>>
    ELSE [k \in 1 .. Len(greeting(G, i)) |-> written(G, i, greeting(G, i)[k])]
         \o greetings(G, i + 1)

\* send_message_game_players: msg to every player in turn, from player i on
RECURSIVE to_all(_, _, _)
to_all(G, msg, i) ==
    IF i >= G.playerCount THEN <<>>
    ELSE <<written(G, i, msg)>> \o to_all(G, msg, i + 1)

\* the newcard lines of the draws that take the board from length n to G's
RECURSIVE newcards(_, _)
newcards(G, n) ==
    IF n >= Len(G.board) THEN <<>>
    ELSE to_all(G, [type |-> "newcard", card |-> G.board[n + 1]], 0)
         \o newcards(G, n + 1)

\* how many lines are remembered for each player
OPENING == 3

\* h with the lines sends: every rid, and a player's first OPENING lines
RECURSIVE remember(_, _)
remember(h, sends) ==
    IF sends = <<>> THEN h
    ELSE LET w == Head(sends)
             known == Cardinality({ k \in 1 .. Len(h.opening) :
                                      h.opening[k].slot = w.slot })
         IN  remember(
                 [h EXCEPT
                    !.opening = IF known < OPENING THEN Append(@, w) ELSE @,
                    !.rids = IF w.msg.type = "rid" THEN Append(@, w) ELSE @],
                 Tail(sends))

\* game_thread up to the first test of run_game_loop: the opening messages,
\* BOARD_SIZE draws, err = 0 and gameStopped = false
DriverStart(g) ==
    /\ Running
    /\ driver[g].pc = "start"
    /\ LET G == lib_draw_times(games[g], BOARD_SIZE)
           pos == next_position(G, G.playerCount, FALSE)
       IN  /\ games' = [games EXCEPT ![g] = G]
           /\ driver' = [driver EXCEPT ![g].pc = pos.pc, ![g].player = pos.player]
           /\ hist' = [hist EXCEPT ![g] =
                  remember(@, greetings(games[g], 0)
                              \o newcards(G, Len(games[g].board)))]
    /\ UNCHANGED <<hubVars, probe, srv, sig, locks, lobbies, conns, main>>

\* do_what: the player's streams are fetched and dowhat is written
DriverPrompt(g) ==
    /\ Running
    /\ driver[g].pc = "turn"
    /\ driver' = [driver EXCEPT
                     ![g].pc = "read",
                     ![g].handle = games[g].players[driver[g].player].conn]
    /\ hist' = [hist EXCEPT ![g] =
          remember([@ EXCEPT !.late = @ \/ games[g].finished],
                   <<written(games[g], driver[g].player, [type |-> "dowhat"])>>)]
    /\ UNCHANGED <<hubVars, probe, srv, sig, locks, lobbies, games, conns, main>>

\* the streams the driver reads still carry the client's replies
CanReply(g) ==
    /\ driver[g].pc = "read"
    /\ ~conns[driver[g].handle].peerClosed
    /\ conns[driver[g].handle].closes = 0

\* do_what reads a legal move: NOTHING_WRONG, the turn is over
DriverReadValid(g) ==
    /\ Running
    /\ CanReply(g)
    /\ \E m \in Replies(games[g], driver[g].player) :
          /\ lib_message_ok(games[g], driver[g].player, m)
          /\ LET G == apply_message(games[g], driver[g].player, m)
             IN  /\ games' = [games EXCEPT ![g] = G]
                 /\ driver' = [driver EXCEPT ![g] =
                        end_turn(note(@, "valid"), G, "NOTHING_WRONG", FALSE)]
    /\ UNCHANGED <<hubVars, probe, srv, sig, locks, lobbies, conns, main, hist>>

\* do_what reads a reply that is no legal move: PROTOCOL_ERROR, the second
\* one of a turn stops the game
DriverReadInvalid(g) ==
    /\ Running
    /\ CanReply(g)
    /\ \E m \in Replies(games[g], driver[g].player) :
          ~lib_message_ok(games[g], driver[g].player, m)
    /\ driver' = [driver EXCEPT ![g] =
          IF @.hadAttempt
          THEN end_turn(note(@, "invalid"), games[g], "PROTOCOL_ERROR", TRUE)
          ELSE [note(@, "invalid") EXCEPT !.pc = "turn", !.hadAttempt = TRUE,
                                          !.err = "PROTOCOL_ERROR"]]
    /\ UNCHANGED <<hubVars, probe, srv, sig, locks, lobbies, games, conns, main, hist>>

\* do_what's read_line fails: PLAYER_CLOSED; wait_for_reconnect gives up at
\* once when the server's timeout is 0
DriverReadEOF(g) ==
    /\ Running
    /\ driver[g].pc = "read"
    /\ conns' = [conns EXCEPT ![driver[g].handle].peerClosed = (@ \/ conns[driver[g].handle].closes = 0)]
    /\ driver' = [driver EXCEPT ![g] =
          IF srv.timeout = 0
          THEN end_turn(note(@, "eof"), games[g], "PLAYER_CLOSED", TRUE)
          ELSE [note(@, "eof") EXCEPT !.pc = "wait_entry", !.err = "PLAYER_CLOSED",
                                      !.reconnected = FALSE]]
    /\ UNCHANGED <<hubVars, probe, srv, sig, locks, lobbies, games, main, hist>>

\* wait_for_reconnect: a finished game is not waited for; otherwise the
\* player's id is published in reconnectingPlayer
DriverWaitEntry(g) ==
    /\ Running
    /\ driver[g].pc = "wait_entry"
    /\ IF games[g].finished
       THEN /\ driver' = [driver EXCEPT ![g] =
                    end_turn(@, games[g], "PLAYER_CLOSED", TRUE)]
            /\ UNCHANGED games
       ELSE /\ games' = [games EXCEPT ![g].reconnectingPlayer = driver[g].player]
            /\ driver' = [driver EXCEPT ![g].pc = "wait_lock"]
    /\ UNCHANGED <<hubVars, probe, srv, sig, locks, lobbies, conns, main, hist>>

\* wait_for_reconnect: the deadline is computed, reconnectLock is taken and
\* pthread_cond_timedwait starts to wait
DriverWaitBegin(g) ==
    /\ Running
    /\ driver[g].pc = "wait_lock"
    /\ driver' = [driver EXCEPT ![g].pc = "waiting"]
    /\ UNCHANGED <<hubVars, probe, srv, sig, locks, lobbies, games, conns, main, hist>>

\* pthread_cond_timedwait reaches its deadline
DriverTimeout(g) ==
    /\ Running
    /\ driver[g].pc = "waiting"
    /\ driver' = [driver EXCEPT ![g].pc = "woken", ![g].waitStatus = "ETIMEDOUT"]
    /\ UNCHANGED <<hubVars, probe, srv, sig, locks, lobbies, games, conns, main, hist>>

\* wait_for_reconnect after the wait: false for a finished game, otherwise
\* waitStatus == 0; on true the dowhat is sent again
DriverWoken(g) ==
    /\ Running
    /\ driver[g].pc = "woken"
    /\ driver' = [driver EXCEPT ![g] =
          IF ~games[g].finished /\ @.waitStatus = "OK"
          THEN [@ EXCEPT !.pc = "turn"]
          ELSE end_turn(@, games[g], "PLAYER_CLOSED", TRUE)]
    /\ UNCHANGED <<hubVars, probe, srv, sig, locks, lobbies, games, conns, main, hist>>

\* the closing section of run_game_loop not looking at finished
closing_unconditional(G) == TRUE

\* the closing section of run_game_loop sends and closes: if (!data->finished)
closing_due(G) == ~G.finished

\* the closing section of run_game_loop, under shutdownLock
DriverFinal(g) ==
    /\ Running
    /\ driver[g].pc = "final"
    /\ locks.shutdownLock = "free"
    /\ driver' = [driver EXCEPT ![g].pc = "done"]
    /\ IF ~closing_due(games[g])
       THEN UNCHANGED <<games, conns, hist>>
       ELSE /\ games' = [games EXCEPT ![g].finished = TRUE]
            /\ conns' = close_players(conns, games[g])
            /\ hist' = [hist EXCEPT ![g].term =
                  CASE driver[g].err = "PLAYER_CLOSED" ->
                          Append(@, Broadcast(games[g], "disco",
                                              offender(driver[g].player), "driver"))
                    [] driver[g].err = "PROTOCOL_ERROR" ->
                          Append(@, Broadcast(games[g], "invalid",
                                              offender(driver[g].player), "driver"))
                    [] driver[g].err = "NOTHING_WRONG" ->
                          Append(@, Broadcast(games[g], "eog", -1, "driver"))
                    [] OTHER -> @]
    /\ UNCHANGED <<hubVars, probe, srv, sig, locks, lobbies, main>>

\* reconnect_game up to its wait: the rid is read and find_open_game looks
\* for an unfinished game of that name and counter; gid = 0 names no game.
\* Connections are numbered in the order they arrive.
ReconnectRid(c) ==
    /\ Running
    /\ conns[c].pc = "idle"
    /\ \A b \in DOMAIN conns : b < c => conns[b].pc # "idle"
    /\ srv.accepting
    /\ \E gid \in 0 .. Len(games), pid \in 0 .. MIN_PLAYERS :
          IF gid = 0 \/ games[gid].finished \/ pid >= games[gid].playerCount
          THEN conns' = [conns EXCEPT ![c].pc = "closed", ![c].closes = @ + 1]
          ELSE conns' = [conns EXCEPT ![c].pc = "spin", ![c].game = gid,
                                      ![c].pid = pid]
    /\ UNCHANGED <<hubVars, probe, srv, sig, locks, lobbies, games, driver, main, hist>>

\* one pass of reconnect_game's while: it ends when reconnectingPlayer is
\* the rid's player, and answers no when the game is finished
ReconnectSpin(c) ==
    /\ Running
    /\ conns[c].pc = "spin"
    /\ LET G == games[conns[c].game]
       IN  IF G.reconnectingPlayer = conns[c].pid
           THEN conns' = [conns EXCEPT ![c].pc = "swap"]
           ELSE /\ G.finished
                /\ conns' = [conns EXCEPT ![c].pc = "closed", ![c].closes = @ + 1]
    /\ UNCHANGED <<hubVars, probe, srv, sig, locks, lobbies, games, driver, main, hist>>

\* reconnect_game's last lines: the player's streams become connection c's
\* and reconnectWait is signalled
swap_streams(c) ==
    /\ LET g == conns[c].game
           inWait == /\ driver[g].pc \in {"wait_entry", "wait_lock", "waiting"}
                     /\ driver[g].player = conns[c].pid
       IN  /\ games' = [games EXCEPT ![g].players[conns[c].pid].conn = c]
           /\ driver' = cond_signal(
                  [driver EXCEPT ![g].reconnected = @ \/ inWait], g)
           /\ hist' = [hist EXCEPT ![g].accepted = @ \cup {c}]
    /\ conns' = [conns EXCEPT ![c].pc = "in_game"]
    /\ UNCHANGED <<hubVars, srv, sig, locks, lobbies, main>>

\* reconnect_game after its wait: yes, playinfo, tokens and the catch-up are
\* written, the player's streams become this connection's, reconnectWait is
\* signalled
ReconnectSwap(c) ==
    /\ Running
    /\ conns[c].pc = "swap"
    /\ swap_streams(c)
    /\ UNCHANGED probe

\* the lines reconnect_game writes before the catch-up
reconnect_header(G, playerId) ==
    << [type |-> "yes"],
       [type |-> "playinfo", letter |-> playerId, count |-> G.playerCount],
       [type |-> "tokens", count |-> G.initialTokens] >>

\* send_catchup_messages' first loop: a newcard for each card of the board
catchup_cards(G) ==
    [k \in 1 .. Len(G.board) |-> [type |-> "newcard", card |-> G.board[k]]]

\* send_catchup_messages' second loop: a player line for each player
catchup_players(G) ==
    [k \in 1 .. G.playerCount |->
        [type |-> "player", letter |-> k - 1,
         score |-> G.players[k - 1].score,
         discounts |-> G.players[k - 1].discounts,
         tokens |-> G.players[k - 1].tokens]]

\* player.c: the client's GameState after main's memset; tokenCount[WILD]
\* is the int behind the four piles, which setup_player_data writes as well
NoView ==
    [ok |-> TRUE, playerCount |-> 0, selfId |-> 0, players |-> <<>>,
     board |-> <<>>, tokenCount |-> Zero5, stage |-> "yes", next |-> 0]

\* player.c setup_player_data for the player line msg
setup_player_data(view, msg) ==
    [view EXCEPT
        !.players[msg.letter] =
            [score |-> @.score + msg.score,
             discounts |-> [i \in Colours |-> @.discounts[i] + msg.discounts[i]],
             tokens |-> [i \in Slots |-> @.tokens[i] + msg.tokens[i]]],
        !.tokenCount = [i \in Slots |-> @[i] - msg.tokens[i]]]

\* player.c: what one line does to the GameState of a client that reconnects,
\* from connect_to_server's wait for yes through setup_game; a line out of
\* place is a COM_ERROR
client_apply(view, msg) ==
    IF ~view.ok THEN view
    ELSE CASE msg.type = "yes" /\ view.stage = "yes" ->
                 [view EXCEPT !.stage = "playinfo"]
           [] msg.type = "playinfo" /\ view.stage = "playinfo" ->
                 IF msg.letter < 0 \/ msg.letter >= msg.count
                    \/ msg.count < MIN_PLAYERS \/ msg.count > MAX_PLAYERS
                 THEN [view EXCEPT !.ok = FALSE]
                 ELSE [view EXCEPT
                         !.playerCount = msg.count, !.selfId = msg.letter,
                         !.players = [k \in 0 .. (msg.count - 1) |->
                                        [score |-> 0, discounts |-> Zero4,
                                         tokens |-> Zero5]],
                         !.stage = "tokens"]
           [] msg.type = "tokens" /\ view.stage = "tokens" ->
                 [view EXCEPT
                     !.tokenCount = [i \in Slots |->
                                       IF i = WILD THEN @[i] ELSE msg.count],
                     !.stage = "catchup"]
           [] msg.type = "newcard" /\ view.stage = "catchup" /\ view.next = 0 ->
                 [view EXCEPT !.board = Append(@, msg.card)]
           [] msg.type = "player" /\ view.stage = "catchup"
              /\ view.next < view.playerCount ->
                 IF msg.letter # view.next
                 THEN [view EXCEPT !.ok = FALSE]
                 ELSE [setup_player_data(view, msg) EXCEPT
                         !.next = @ + 1,
                         !.stage = IF view.next + 1 = view.playerCount
                                   THEN "play" ELSE "catchup"]
           [] OTHER -> [view EXCEPT !.ok = FALSE]

\* the lines msgs read one after the other
RECURSIVE client_read(_, _)
client_read(view, msgs) ==
    IF msgs = <<>> THEN view
    ELSE client_read(client_apply(view, Head(msgs)), Tail(msgs))

\* reconnect_game after its wait: yes, playinfo and tokens are written, and
\* send_catchup_messages' first loop reads the board
CatchupCards(c) ==
    /\ Running
    /\ conns[c].pc = "swap"
    /\ conns' = [conns EXCEPT ![c].pc = "catchup"]
    /\ probe' = [pc |-> "cards", conn |-> c,
                 sent |-> reconnect_header(games[conns[c].game], conns[c].pid)
                          \o catchup_cards(games[conns[c].game]),
                 view |-> NoView]
    /\ UNCHANGED <<hubVars, srv, sig, locks, lobbies, games, driver, main, hist>>

\* send_catchup_messages' second loop reads the players, the streams are
\* swapped and reconnectWait is signalled; the client reads what was sent
CatchupPlayers(c) ==
    /\ Running
    /\ conns[c].pc = "catchup"
    /\ LET sent == probe.sent \o catchup_players(games[conns[c].game])
       IN  probe' = [pc |-> "caught_up", conn |-> c, sent |-> sent,
                     view |-> client_read(NoView, sent)]
    /\ swap_streams(c)

(***************************************************************************)
(* One game from the moment its lobby closed: its driver and the clients    *)
(* that reconnect to it.                                                   *)
(***************************************************************************)

Timeouts == {0, 1}

WinScores == {1, 2}

GameInit ==
    /\ HubOff
    /\ ProbeOff
    /\ \E t \in Timeouts, w \in WinScores, rp \in -1 .. (MIN_PLAYERS - 1) :
          LET details == StatfileEntry(1, 1, w, MIN_PLAYERS)
              members == [k \in 1 .. MIN_PLAYERS |-> [name |-> k, conn |-> k]]
          IN  /\ srv = [timeout |-> t, statfile |-> <<details>>, accepting |-> TRUE, key |-> ServerKey]
              /\ lobbies = << [name |-> 1, details |-> details,
                               players |-> members, open |-> FALSE] >>
              /\ games = << NewGame(1, 1, members, details, rp) >>
              /\ conns = [c \in 1 .. (MIN_PLAYERS + MaxReconnects) |->
                            IF c <= MIN_PLAYERS
                            THEN [NewConn EXCEPT !.pc = "in_game",
                                                 !.details = details,
                                                 !.gameName = 1, !.playerName = c,
                                                 !.lobby = 1, !.game = 1,
                                                 !.pid = c - 1]
                            ELSE NewConn]
    /\ sig = [sigintReceived |-> FALSE, sigtermReceived |-> FALSE, sigints |-> 0]
    /\ locks = [joinLobbyLock |-> 0, shutdownLock |-> "free"]
    /\ driver = << NewDriver >>
    /\ main = [pc |-> "serving", i |-> 0, exit |-> "NONE"]
    /\ hist = << [NewHist EXCEPT !.lobby = 1] >>

GameNext ==
    \/ \E g \in GameIds : DriverStart(g)
    \/ \E g \in GameIds : DriverPrompt(g)
    \/ \E g \in GameIds : DriverReadValid(g)
    \/ \E g \in GameIds : DriverReadInvalid(g)
    \/ \E g \in GameIds : DriverReadEOF(g)
    \/ \E g \in GameIds : DriverWaitEntry(g)
    \/ \E g \in GameIds : DriverWaitBegin(g)
    \/ \E g \in GameIds : DriverTimeout(g)
    \/ \E g \in GameIds : DriverWoken(g)
    \/ \E g \in GameIds : DriverFinal(g)
    \/ \E c \in DOMAIN conns : ReconnectRid(c)
    \/ \E c \in DOMAIN conns : ReconnectSpin(c)
    \/ \E c \in DOMAIN conns : ReconnectSwap(c)

SpecGame == GameInit /\ [][GameNext]_vars

(***************************************************************************)
(* One game with a reconnect timeout and two clients that reconnect to it. *)
(***************************************************************************)
RejoinInit ==
    /\ HubOff
    /\ ProbeOff
    /\ LET details == StatfileEntry(1, 1, 1, MIN_PLAYERS)
           members == [k \in 1 .. MIN_PLAYERS |-> [name |-> k, conn |-> k]]
       IN  /\ srv = [timeout |-> 1, statfile |-> <<details>>, accepting |-> TRUE,
                     key |-> ServerKey]
           /\ lobbies = << [name |-> 1, details |-> details,
                            players |-> members, open |-> FALSE] >>
           /\ games = << NewGame(1, 1, members, details, -1) >>
           /\ conns = [c \in 1 .. (MIN_PLAYERS + 2) |->
                         IF c <= MIN_PLAYERS
                         THEN [NewConn EXCEPT !.pc = "in_game", !.details = details,
                                              !.gameName = 1, !.playerName = c,
                                              !.lobby = 1, !.game = 1, !.pid = c - 1]
                         ELSE NewConn]
    /\ sig = [sigintReceived |-> FALSE, sigtermReceived |-> FALSE, sigints |-> 0]
    /\ locks = [joinLobbyLock |-> 0, shutdownLock |-> "free"]
    /\ driver = << NewDriver >>
    /\ main = [pc |-> "serving", i |-> 0, exit |-> "NONE"]
    /\ hist = << [NewHist EXCEPT !.lobby = 1] >>

SpecRejoin == RejoinInit /\ [][GameNext]_vars

(***************************************************************************)
(* One game and one client that reconnects to it, its catch-up written in  *)
(* two steps: the board first, the players after.                          *)
(***************************************************************************)
CatchupInit ==
    /\ HubOff
    /\ \E w \in WinScores, rp \in -1 .. (MIN_PLAYERS - 1) :
          LET details == StatfileEntry(1, 1, w, MIN_PLAYERS)
              members == [k \in 1 .. MIN_PLAYERS |-> [name |-> k, conn |-> k]]
          IN  /\ srv = [timeout |-> 1, statfile |-> <<details>>,
                        accepting |-> TRUE, key |-> ServerKey]
              /\ lobbies = << [name |-> 1, details |-> details,
                               players |-> members, open |-> FALSE] >>
              /\ games = << NewGame(1, 1, members, details, rp) >>
              /\ conns = [c \in 1 .. (MIN_PLAYERS + 1) |->
                            IF c <= MIN_PLAYERS
                            THEN [NewConn EXCEPT !.pc = "in_game",
                                                 !.details = details,
                                                 !.gameName = 1, !.playerName = c,
                                                 !.lobby = 1, !.game = 1,
                                                 !.pid = c - 1]
                            ELSE NewConn]
    /\ sig = [sigintReceived |-> FALSE, sigtermReceived |-> FALSE, sigints |-> 0]
    /\ locks = [joinLobbyLock |-> 0, shutdownLock |-> "free"]
    /\ driver = << NewDriver >>
    /\ main = [pc |-> "serving", i |-> 0, exit |-> "NONE"]
    /\ hist = << [NewHist EXCEPT !.lobby = 1] >>
    /\ probe = [pc |-> "off"]

CatchupNext ==
    \/ \E g \in GameIds : DriverStart(g)
    \/ \E g \in GameIds : DriverPrompt(g)
    \/ \E g \in GameIds : DriverReadValid(g)
    \/ \E g \in GameIds : DriverReadInvalid(g)
    \/ \E g \in GameIds : DriverReadEOF(g)
    \/ \E g \in GameIds : DriverWaitEntry(g)
    \/ \E g \in GameIds : DriverWaitBegin(g)
    \/ \E g \in GameIds : DriverTimeout(g)
    \/ \E g \in GameIds : DriverWoken(g)
    \/ \E g \in GameIds : DriverFinal(g)
    \/ \E c \in DOMAIN conns : ReconnectRid(c)
    \/ \E c \in DOMAIN conns : ReconnectSpin(c)
    \/ \E c \in DOMAIN conns : CatchupCards(c)
    \/ \E c \in DOMAIN conns : CatchupPlayers(c)

SpecCatchup == CatchupInit /\ [][CatchupNext]_vars



(***************************************************************************)
(* ass4/server.c: clients that ask to play.  A lobby is a record with      *)
(* name, details (the StatfileEntry of its first player's port), players   *)
(* (in the order they joined, each with name and conn) and open;           *)
(* currentClients is the length of players.  Lobby id i is element i + 1   *)
(* of lobbies.                                                             *)
(***************************************************************************)
\* number of clients that ask to play
MaxJoiners == 3

GameNames == {1, 2}

PlayerNames == {1, 2}

\* pthread_mutex_lock returning whoever holds the mutex
lock_not_checked(holder) == TRUE

\* pthread_mutex_lock returns once nobody holds the mutex
lock_free(holder) == holder = 0

\* find_lobby_with_name's loop without its strcmp: the last open lobby
find_lobby_any_name(ls, gameName) ==
    LET found == { id \in 1 .. Len(ls) : ls[id].open }
    IN  IF found = {} THEN 0 ELSE CHOOSE id \in found : \A o \in found : o <= id

\* find_lobby_with_name's loop: the last open lobby of that name, 0 for none
find_open_lobby(ls, gameName) ==
    LET found == { id \in 1 .. Len(ls) : ls[id].name = gameName /\ ls[id].open }
    IN  IF found = {} THEN 0 ELSE CHOOSE id \in found : \A o \in found : o <= id

create_lobby(ls, gameName, portDetails) ==
    Append(ls, [name |-> gameName, details |-> portDetails,
                players |-> <<>>, open |-> TRUE])

\* sort_players with the later joiner first among equal names
comes_before_later_first(members, j, k) ==
    \/ members[j].name < members[k].name
    \/ members[j].name = members[k].name /\ j > k

\* sort_players: by name, and by the order of joining for equal names
comes_before(members, j, k) ==
    \/ members[j].name < members[k].name
    \/ members[j].name = members[k].name /\ j < k

\* start_game's qsort
sorted_players(members) ==
    [i \in 1 .. Len(members) |->
        members[CHOOSE k \in 1 .. Len(members) :
                    Cardinality({ j \in 1 .. Len(members) :
                                    comes_before(members, j, k) }) = i - 1]]

\* add_game_to_server's loop passing over the games that have finished
game_counter_unfinished(gs, name) ==
    1 + Cardinality({ g \in 1 .. Len(gs) : gs[g].name = name /\ ~gs[g].finished })

\* add_game_to_server's gameCounter
game_counter(gs, name) ==
    1 + Cardinality({ g \in 1 .. Len(gs) : gs[g].name = name })

\* handle_connection up to join_game's lock: a port accepts the client, the
\* client authenticates with play and the key (it is idle before, NEW when
\* its first line has been followed), its game name and player name are
\* read, and joinLobbyLock is taken; gn = 0 stands for names that are
\* missing or bad
JoinRead(c) ==
    /\ Running
    /\ conns[c].pc \in {"idle", "NEW"}
    /\ \A b \in DOMAIN conns : b < c => conns[b].pc # "idle"
    /\ srv.accepting
    /\ \E k \in 1 .. Len(srv.statfile), gn \in GameNames \cup {0}, pn \in PlayerNames :
          IF gn = 0
          THEN /\ conns' = [conns EXCEPT ![c].pc = "closed", ![c].closes = @ + 1]
               /\ UNCHANGED locks
          ELSE /\ lock_free(locks.joinLobbyLock)
               /\ locks' = [locks EXCEPT !.joinLobbyLock = c]
               /\ conns' = [conns EXCEPT ![c].pc = "find",
                                          ![c].details = srv.statfile[k],
                                          ![c].gameName = gn, ![c].playerName = pn]
    /\ UNCHANGED <<hubVars, probe, srv, sig, lobbies, games, driver, main, hist>>

\* find_lobby_with_name: the open lobby of that name, or a new one
JoinFind(c) ==
    /\ Running
    /\ conns[c].pc = "find"
    /\ LET id == find_open_lobby(lobbies, conns[c].gameName)
       IN  IF id = 0
           THEN /\ lobbies' = create_lobby(lobbies, conns[c].gameName, conns[c].details)
                /\ conns' = [conns EXCEPT ![c].pc = "join", ![c].lobby = Len(lobbies) + 1]
           ELSE /\ conns' = [conns EXCEPT ![c].pc = "join", ![c].lobby = id]
                /\ UNCHANGED lobbies
    /\ UNCHANGED <<hubVars, probe, srv, sig, locks, games, driver, main, hist>>

\* join_lobby, with start_game and add_game_to_server when the lobby fills,
\* and join_game's unlock; rp is what the malloc'ed reconnectingPlayer holds
JoinLobby(c) ==
    /\ Running
    /\ conns[c].pc = "join"
    /\ LET l == conns[c].lobby
           L == [lobbies[l] EXCEPT
                    !.players = Append(@, [name |-> conns[c].playerName, conn |-> c])]
       IN  IF Len(L.players) = L.details.players
           THEN /\ lobbies' = [lobbies EXCEPT ![l] = [L EXCEPT !.open = FALSE]]
                /\ \E rp \in -1 .. (Len(L.players) - 1) :
                      games' = Append(games,
                                  NewGame(L.name, game_counter(games, L.name),
                                          sorted_players(L.players), L.details, rp))
                /\ driver' = Append(driver, NewDriver)
                /\ hist' = Append(hist, [NewHist EXCEPT !.lobby = l])
           ELSE /\ lobbies' = [lobbies EXCEPT ![l] = L]
                /\ UNCHANGED <<games, driver, hist>>
    /\ locks' = [locks EXCEPT !.joinLobbyLock = 0]
    /\ conns' = [conns EXCEPT ![c].pc = "joined"]
    /\ UNCHANGED <<hubVars, probe, srv, sig, main>>

(***************************************************************************)
(* The lobbies of a server that accepts on two ports.                      *)
(***************************************************************************)
LobbyStatfile ==
    << StatfileEntry(1, 1, 1, MIN_PLAYERS), StatfileEntry(2, 2, 2, MIN_PLAYERS + 1) >>

LobbyInit ==
    /\ HubOff
    /\ ProbeOff
    /\ srv = [timeout |-> 0, statfile |-> LobbyStatfile, accepting |-> TRUE, key |-> ServerKey]
    /\ sig = [sigintReceived |-> FALSE, sigtermReceived |-> FALSE, sigints |-> 0]
    /\ locks = [joinLobbyLock |-> 0, shutdownLock |-> "free"]
    /\ lobbies = <<>>
    /\ games = <<>>
    /\ driver = <<>>
    /\ conns = [c \in 1 .. MaxJoiners |-> NewConn]
    /\ main = [pc |-> "serving", i |-> 0, exit |-> "NONE"]
    /\ hist = <<>>

LobbyNext ==
    \/ \E c \in DOMAIN conns : JoinRead(c)
    \/ \E c \in DOMAIN conns : JoinFind(c)
    \/ \E c \in DOMAIN conns : JoinLobby(c)

SpecLobby == LobbyInit /\ [][LobbyNext]_vars

(***************************************************************************)
(* The lobbies of a server that may already have made a game, finished or  *)
(* still running, from the clients after the joiners.                      *)
(***************************************************************************)
IdentityInit ==
    /\ HubOff
    /\ ProbeOff
    /\ srv = [timeout |-> 0, statfile |-> LobbyStatfile, accepting |-> TRUE, key |-> ServerKey]
    /\ sig = [sigintReceived |-> FALSE, sigtermReceived |-> FALSE, sigints |-> 0]
    /\ locks = [joinLobbyLock |-> 0, shutdownLock |-> "free"]
    /\ main = [pc |-> "serving", i |-> 0, exit |-> "NONE"]
    /\ \/ /\ lobbies = <<>>
          /\ games = <<>>
          /\ driver = <<>>
          /\ hist = <<>>
          /\ conns = [c \in 1 .. MaxJoiners |-> NewConn]
       \/ \E name \in GameNames, finished \in BOOLEAN :
             LET details == LobbyStatfile[1]
                 members == [k \in 1 .. MIN_PLAYERS |->
                                [name |-> k, conn |-> MaxJoiners + k]]
             IN  /\ lobbies = << [name |-> name, details |-> details,
                                  players |-> members, open |-> FALSE] >>
                 /\ games = << [NewGame(name, game_counter(<<>>, name),
                                        sorted_players(members), details, -1)
                                    EXCEPT !.finished = finished] >>
                 /\ driver = << [NewDriver EXCEPT
                                    !.pc = IF finished THEN "done" ELSE "start"] >>
                 /\ hist = << [NewHist EXCEPT !.lobby = 1] >>
                 /\ conns = [c \in 1 .. (MaxJoiners + MIN_PLAYERS) |->
                               IF c <= MaxJoiners THEN NewConn
                               ELSE [NewConn EXCEPT
                                        !.pc = "joined", !.details = details,
                                        !.gameName = name,
                                        !.playerName = c - MaxJoiners,
                                        !.lobby = 1,
                                        !.closes = IF finished THEN 1 ELSE 0]]

SpecIdentity == IdentityInit /\ [][LobbyNext]_vars

(***************************************************************************)
(* ass4/server.c: the main thread in run_server and main, and the signal   *)
(* handler.  main.pc is "loop_test" at the test of run_server's outer      *)
(* while, "serving" in its inner wait, "shutdown_games" once run_server    *)
(* has returned main.exit, "shutdown_loop" and "join" in the two loops of  *)
(* shutdown_games, "free" before free_server and "exited" after exit.      *)
(***************************************************************************)
\* number of SIGINTs delivered to the server
MaxSigints == 1

\* the statfiles load_statfile may find
Statfiles ==
    { << StatfileEntry(1, 1, 1, MIN_PLAYERS) >>,
      << StatfileEntry(2, 2, 2, MIN_PLAYERS) >> }

\* run_server's outer while ending after its first pass
run_server_once(s) == FALSE

\* the test of run_server's outer while
run_server_continues(s) == ~s.sigtermReceived

\* handle_signal for SIGINT; hist marks the games running at that moment
Sigint ==
    /\ main.pc \notin {"off", "exited"}
    /\ ~sig.sigintReceived
    /\ sig.sigints < MaxSigints
    /\ sig' = [sig EXCEPT !.sigintReceived = TRUE, !.sigints = @ + 1]
    /\ hist' = [g \in DOMAIN hist |->
                  [hist[g] EXCEPT !.sigint = @ \/ ~games[g].finished]]
    /\ UNCHANGED <<hubVars, probe, srv, locks, lobbies, games, driver, conns, main>>

\* handle_signal for SIGTERM
Sigterm ==
    /\ main.pc \notin {"off", "exited"}
    /\ ~sig.sigtermReceived
    /\ sig' = [sig EXCEPT !.sigtermReceived = TRUE]
    /\ UNCHANGED <<hubVars, probe, srv, locks, lobbies, games, driver, conns, main, hist>>

\* one pass of run_server's outer while up to its wait: load_statfile,
\* start_listening and start_accepting; a statfile that does not load or a
\* port that does not bind makes run_server return
MainLoad ==
    /\ main.pc = "loop_test"
    /\ run_server_continues(sig)
    /\ \E valid \in BOOLEAN, file \in Statfiles, bound \in BOOLEAN :
          IF ~valid
          THEN /\ main' = [main EXCEPT !.pc = "shutdown_games", !.exit = "BAD_STATFILE"]
               /\ UNCHANGED srv
          ELSE IF ~bound
               THEN /\ main' = [main EXCEPT !.pc = "shutdown_games",
                                            !.exit = "FAILED_LISTEN"]
                    /\ srv' = [srv EXCEPT !.statfile = file]
               ELSE /\ main' = [main EXCEPT !.pc = "serving"]
                    /\ srv' = [srv EXCEPT !.statfile = file, !.accepting = TRUE]
    /\ UNCHANGED <<hubVars, probe, sig, locks, lobbies, games, driver, conns, hist>>

\* run_server leaves its wait on a signal: stop_accepting joins the
\* acceptors, the statfile entries are freed, sigintReceived is cleared
MainStopAccepting ==
    /\ main.pc = "serving"
    /\ sig.sigintReceived \/ sig.sigtermReceived
    /\ srv' = [srv EXCEPT !.accepting = FALSE, !.statfile = <<>>]
    /\ sig' = [sig EXCEPT !.sigintReceived = FALSE]
    /\ main' = [main EXCEPT !.pc = "loop_test"]
    /\ UNCHANGED <<hubVars, probe, locks, lobbies, games, driver, conns, hist>>

\* run_server's outer while ends: NORMAL_EXIT
MainReturn ==
    /\ main.pc = "loop_test"
    /\ ~run_server_continues(sig)
    /\ main' = [main EXCEPT !.pc = "shutdown_games", !.exit = "NORMAL_EXIT"]
    /\ UNCHANGED <<hubVars, probe, srv, sig, locks, lobbies, games, driver, conns, hist>>

\* shutdown_games takes shutdownLock
MainShutdownGames ==
    /\ main.pc = "shutdown_games"
    /\ locks.shutdownLock = "free"
    /\ locks' = [locks EXCEPT !.shutdownLock = "main"]
    /\ main' = [main EXCEPT !.pc = "shutdown_loop", !.i = 1]
    /\ UNCHANGED <<hubVars, probe, srv, sig, lobbies, games, driver, conns, hist>>

\* one pass of shutdown_games' first loop: shutdown_game for an unfinished
\* game; after the last game shutdownLock is released
MainShutdownGame ==
    /\ main.pc = "shutdown_loop"
    /\ IF main.i <= Len(games)
       THEN /\ main' = [main EXCEPT !.i = @ + 1]
            /\ UNCHANGED locks
            /\ IF games[main.i].finished
               THEN UNCHANGED <<games, driver, conns, hist>>
               ELSE /\ games' = [games EXCEPT ![main.i].finished = TRUE]
                    /\ hist' = [hist EXCEPT ![main.i].term =
                          Append(@, Broadcast(games[main.i], "eog", -1, "main"))]
                    /\ conns' = close_players(conns, games[main.i])
                    /\ driver' = cond_signal(driver, main.i)
       ELSE /\ main' = [main EXCEPT !.pc = "join", !.i = 1]
            /\ locks' = [locks EXCEPT !.shutdownLock = "free"]
            /\ UNCHANGED <<games, driver, conns, hist>>
    /\ UNCHANGED <<hubVars, probe, srv, sig, lobbies>>

\* one pass of shutdown_games' second loop: pthread_join of a game's thread;
\* after the last one main goes on to free_server
MainJoin ==
    /\ main.pc = "join"
    /\ IF main.i <= Len(games)
       THEN /\ driver[main.i].pc = "done"
            /\ main' = [main EXCEPT !.i = @ + 1]
       ELSE main' = [main EXCEPT !.pc = "free"]
    /\ UNCHANGED <<hubVars, probe, srv, sig, locks, lobbies, games, driver, conns, hist>>

\* free_server and exit_program: the process is gone
MainExit ==
    /\ main.pc = "free"
    /\ main' = [main EXCEPT !.pc = "exited"]
    /\ UNCHANGED <<hubVars, probe, srv, sig, locks, lobbies, games, driver, conns, hist>>

(***************************************************************************)
(* The whole server from main's call of run_server: the main thread, the   *)
(* signals, two clients that ask to play, and the drivers of their games   *)
(* with players who make no legal move.                                    *)
(***************************************************************************)
ServerInit ==
    /\ HubOff
    /\ ProbeOff
    /\ srv = [timeout |-> 0, statfile |-> <<>>, accepting |-> FALSE, key |-> ServerKey]
    /\ sig = [sigintReceived |-> FALSE, sigtermReceived |-> FALSE, sigints |-> 0]
    /\ locks = [joinLobbyLock |-> 0, shutdownLock |-> "free"]
    /\ lobbies = <<>>
    /\ games = <<>>
    /\ driver = <<>>
    /\ conns = [c \in 1 .. MIN_PLAYERS |-> NewConn]
    /\ main = [pc |-> "loop_test", i |-> 0, exit |-> "NONE"]
    /\ hist = <<>>

ServerNext ==
    \/ Sigint
    \/ Sigterm
    \/ MainLoad
    \/ MainStopAccepting
    \/ MainReturn
    \/ MainShutdownGames
    \/ MainShutdownGame
    \/ MainJoin
    \/ MainExit
    \/ \E c \in DOMAIN conns : JoinRead(c)
    \/ \E c \in DOMAIN conns : JoinFind(c)
    \/ \E c \in DOMAIN conns : JoinLobby(c)
    \/ \E g \in GameIds : DriverStart(g)
    \/ \E g \in GameIds : DriverPrompt(g)
    \/ \E g \in GameIds : DriverReadInvalid(g)
    \/ \E g \in GameIds : DriverReadEOF(g)
    \/ \E g \in GameIds : DriverFinal(g)

SpecServer == ServerInit /\ [][ServerNext]_vars

(***************************************************************************)
(* run_server step by step, without clients: the main thread is at         *)
(* "loop_test", "loading" (load_statfile has begun), "serving" (the inner  *)
(* wait), "stopping" (the wait is over, stop_accepting runs) and then as   *)
(* above.  probe.owed tells that a SIGINT has arrived since load_statfile  *)
(* was last begun, probe.loads counts the statfiles read.                  *)
(***************************************************************************)
\* number of SIGINTs delivered while run_server is followed step by step
MaxRebinds == 2

\* the inner while of run_server testing sigtermReceived alone
wait_ends_on_sigterm(s) == s.sigtermReceived

\* the inner while of run_server is over
wait_ends(s) == s.sigintReceived \/ s.sigtermReceived

RebindInit ==
    /\ HubOff
    /\ srv = [timeout |-> 0, statfile |-> <<>>, accepting |-> FALSE, key |-> ServerKey]
    /\ sig = [sigintReceived |-> FALSE, sigtermReceived |-> FALSE, sigints |-> 0]
    /\ locks = [joinLobbyLock |-> 0, shutdownLock |-> "free"]
    /\ lobbies = <<>>
    /\ games = <<>>
    /\ driver = <<>>
    /\ conns = <<>>
    /\ main = [pc |-> "loop_test", i |-> 0, exit |-> "NONE"]
    /\ hist = <<>>
    /\ probe = [pc |-> "signals", owed |-> FALSE, loads |-> 0]

\* handle_signal for SIGINT, whatever sigintReceived holds
RebindSigint ==
    /\ main.pc \notin {"off", "exited"}
    /\ sig.sigints < MaxRebinds
    /\ sig' = [sig EXCEPT !.sigintReceived = TRUE, !.sigints = @ + 1]
    /\ probe' = [probe EXCEPT !.owed = TRUE]
    /\ UNCHANGED <<hubVars, srv, locks, lobbies, games, driver, conns, main, hist>>

\* run_server's outer while goes round: load_statfile begins
RebindLoad ==
    /\ main.pc = "loop_test"
    /\ run_server_continues(sig)
    /\ main' = [main EXCEPT !.pc = "loading"]
    /\ probe' = [probe EXCEPT !.owed = FALSE, !.loads = @ + 1]
    /\ UNCHANGED <<hubVars, srv, sig, locks, lobbies, games, driver, conns, hist>>

\* load_statfile ends, start_listening binds and start_accepting starts one
\* acceptor for each entry; a statfile that does not load or a port that
\* does not bind makes run_server return
RebindListen ==
    /\ main.pc = "loading"
    /\ \E valid \in BOOLEAN, file \in Statfiles, bound \in BOOLEAN :
          IF ~valid
          THEN /\ main' = [main EXCEPT !.pc = "shutdown_games", !.exit = "BAD_STATFILE"]
               /\ UNCHANGED srv
          ELSE IF ~bound
               THEN /\ main' = [main EXCEPT !.pc = "shutdown_games",
                                            !.exit = "FAILED_LISTEN"]
                    /\ srv' = [srv EXCEPT !.statfile = file]
               ELSE /\ main' = [main EXCEPT !.pc = "serving"]
                    /\ srv' = [srv EXCEPT !.statfile = file, !.accepting = TRUE]
    /\ UNCHANGED <<hubVars, probe, sig, locks, lobbies, games, driver, conns, hist>>

\* run_server's inner while ends on a signal
RebindWake ==
    /\ main.pc = "serving"
    /\ wait_ends(sig)
    /\ main' = [main EXCEPT !.pc = "stopping"]
    /\ UNCHANGED <<hubVars, probe, srv, sig, locks, lobbies, games, driver, conns, hist>>

\* stop_accepting joins the acceptors, the statfile entries are freed and
\* sigintReceived is cleared
RebindStop ==
    /\ main.pc = "stopping"
    /\ srv' = [srv EXCEPT !.accepting = FALSE, !.statfile = <<>>]
    /\ sig' = [sig EXCEPT !.sigintReceived = FALSE]
    /\ main' = [main EXCEPT !.pc = "loop_test"]
    /\ UNCHANGED <<hubVars, probe, locks, lobbies, games, driver, conns, hist>>

\* the steps of the main thread
RebindMain ==
    \/ RebindLoad
    \/ RebindListen
    \/ RebindWake
    \/ RebindStop
    \/ MainReturn
    \/ MainShutdownGames
    \/ MainShutdownGame
    \/ MainJoin
    \/ MainExit

RebindNext ==
    \/ RebindSigint
    \/ Sigterm
    \/ RebindMain

SpecRebind == RebindInit /\ [][RebindNext]_vars

\* the main thread is never held up for ever: its waits are loops that test
\* the flags, and no other thread runs
SpecRebindLive == SpecRebind /\ WF_vars(RebindMain)

(***************************************************************************)
(* A running game and the main thread from SIGTERM to the end of main:     *)
(* run_server returns, shutdown_games ends the game and joins its driver.  *)
(***************************************************************************)
ShutdownNext ==
    \/ Sigterm
    \/ MainStopAccepting
    \/ MainReturn
    \/ MainShutdownGames
    \/ MainShutdownGame
    \/ MainJoin
    \/ MainExit
    \/ \E g \in GameIds : DriverStart(g)
    \/ \E g \in GameIds : DriverPrompt(g)
    \/ \E g \in GameIds : DriverReadValid(g)
    \/ \E g \in GameIds : DriverReadInvalid(g)
    \/ \E g \in GameIds : DriverReadEOF(g)
    \/ \E g \in GameIds : DriverWaitEntry(g)
    \/ \E g \in GameIds : DriverWaitBegin(g)
    \/ \E g \in GameIds : DriverTimeout(g)
    \/ \E g \in GameIds : DriverWoken(g)
    \/ \E g \in GameIds : DriverFinal(g)

SpecShutdown == GameInit /\ [][ShutdownNext]_vars

(***************************************************************************)
(* ass4/server.c: handle_connection from the client's first line.  A line  *)
(* is the sequence of its characters without the newline; EOF stands for   *)
(* a stream that ended before a line was read.                             *)
(***************************************************************************)
\* the clients that connect: as many as fill a lobby
NewClients == MIN_PLAYERS
\* longest text a client writes after play, reconnect or scores
MaxRest == 2

EOF == <<"EOF">>

PLAY == <<"p", "l", "a", "y">>
RECONNECT == <<"r", "e", "c", "o", "n", "n", "e", "c", "t">>
SCORES == <<"s", "c", "o", "r", "e", "s">>
RID == <<"r", "i", "d">>

\* strncmp(line, prefix, strlen(prefix)) == 0
starts_with(line, prefix) ==
    /\ Len(line) >= Len(prefix)
    /\ SubSeq(line, 1, Len(prefix)) = prefix

\* line + n
after(line, n) == SubSeq(line, n + 1, Len(line))

\* authenticate_connection with strncmp in place of strcmp on the key: the
\* text after play or reconnect only has to begin with the key
auth_key_as_prefix(line, key) ==
    IF line = EOF \/ line = <<>> THEN "INVALID_AUTH"
    ELSE IF starts_with(line, PLAY \o key) THEN "NEW"
         ELSE IF starts_with(line, RECONNECT \o key) THEN "RECONNECT"
              ELSE IF line = SCORES THEN "SCORES" ELSE "INVALID_AUTH"

\* authenticate_connection: read_line gives no line, or an empty one, for
\* INVALID_AUTH; play and reconnect are compared as prefixes and the rest
\* with the key, scores as the whole line
authenticate_connection(line, key) ==
    IF line = EOF \/ line = <<>> THEN "INVALID_AUTH"
    ELSE IF starts_with(line, PLAY)
         THEN IF after(line, Len(PLAY)) = key THEN "NEW" ELSE "INVALID_AUTH"
         ELSE IF starts_with(line, RECONNECT)
              THEN IF after(line, Len(RECONNECT)) = key
                   THEN "RECONNECT" ELSE "INVALID_AUTH"
              ELSE IF line = SCORES THEN "SCORES" ELSE "INVALID_AUTH"

\* the texts of at most n characters over the key's alphabet
RECURSIVE Texts(_)
Texts(n) ==
    IF n = 0 THEN { <<>> }
    ELSE Texts(n - 1)
         \cup { Append(t, ch) : t \in Texts(n - 1), ch \in {"k", "x"} }

\* the first lines clients write
FirstLines ==
    { pre \o rest : pre \in {PLAY, RECONNECT, SCORES, <<"p", "l", "a">>, <<>>},
                    rest \in Texts(MaxRest) }
    \cup {EOF}

\* handle_connection up to its switch: the first line is read, yes or no is
\* written, the scores are printed for SCORES, and the connection is closed
\* unless the client goes on to join or to reconnect.  Connections are
\* numbered in the order they arrive.
AuthRead(c) ==
    /\ Running
    /\ conns[c].pc = "accepted"
    /\ \A b \in DOMAIN conns : b < c => conns[b].pc # "accepted"
    /\ \E line \in FirstLines :
          LET auth == authenticate_connection(line, srv.key)
          IN  /\ probe' = [pc |-> "auth", conn |-> c, line |-> line, auth |-> auth,
                           reply |-> IF auth = "INVALID_AUTH" THEN "no" ELSE "yes"]
              /\ conns' = [conns EXCEPT ![c] =
                    IF auth \in {"NEW", "RECONNECT"}
                    THEN [@ EXCEPT !.pc = auth]
                    ELSE [@ EXCEPT !.pc = "closed", !.closes = @ + 1]]
    /\ UNCHANGED <<hubVars, srv, sig, locks, lobbies, games, driver, main, hist>>

\* the letters of the two game names
GameNameText(n) == IF n = 1 THEN <<"g">> ELSE <<"h">>

Digits == <<"0", "1", "2", "3", "4", "5", "6", "7", "8", "9">>

IsDigit(ch) == \E i \in 1 .. Len(Digits) : Digits[i] = ch

DigitValue(ch) == (CHOOSE i \in 1 .. Len(Digits) : Digits[i] = ch) - 1

\* the white space sscanf's %d skips
RECURSIVE skip_space(_)
skip_space(s) == IF s # <<>> /\ Head(s) = " " THEN skip_space(Tail(s)) ELSE s

\* the digits at the start of s as a number, and what follows them
RECURSIVE scan_digits(_, _)
scan_digits(s, value) ==
    IF s # <<>> /\ IsDigit(Head(s))
    THEN scan_digits(Tail(s), 10 * value + DigitValue(Head(s)))
    ELSE [value |-> value, rest |-> s]

\* sscanf's %d: white space, a sign, at least one digit
scan_int(s) ==
    LET t == skip_space(s)
        signed == t # <<>> /\ Head(t) \in {"-", "+"}
        u == IF signed THEN Tail(t) ELSE t
    IN  IF u = <<>> \/ ~IsDigit(Head(u))
        THEN [ok |-> FALSE, value |-> 0, rest |-> s]
        ELSE LET r == scan_digits(u, 0)
             IN  [ok |-> TRUE,
                  value |-> IF signed /\ Head(t) = "-" THEN 0 - r.value ELSE r.value,
                  rest |-> r.rest]

\* sscanf(s, "%d,%d", &gc, &playerId): how many were converted, and the values
scan_two_ints(s) ==
    LET a == scan_int(s)
    IN  IF ~a.ok THEN [n |-> 0, gc |-> 0, playerId |-> 0]
        ELSE IF a.rest = <<>> \/ Head(a.rest) # ","
             THEN [n |-> 1, gc |-> a.value, playerId |-> 0]
             ELSE LET b == scan_int(Tail(a.rest))
                  IN  IF ~b.ok THEN [n |-> 1, gc |-> a.value, playerId |-> 0]
                      ELSE [n |-> 2, gc |-> a.value, playerId |-> b.value]

\* the characters of rid before its first comma
RECURSIVE name_part(_)
name_part(rid) ==
    IF rid = <<>> \/ Head(rid) = "," THEN <<>>
    ELSE <<Head(rid)>> \o name_part(Tail(rid))

BadRid == [ok |-> FALSE, name |-> <<>>, gameCounter |-> 0, playerId |-> 0]

\* what sscanf may find in the bytes behind the line's terminator
StrayInts == {0, 1}

\* get_and_parse_rid: the outcomes for one line.  A rid without a comma makes
\* sscanf read behind the terminator of the line: any outcome.
get_and_parse_rid(line) ==
    IF line = EOF \/ line = <<>> THEN {BadRid}
    ELSE IF ~starts_with(line, RID) \/ Len(line) = Len(RID) THEN {BadRid}
    ELSE LET rid == after(line, Len(RID))
             gameName == name_part(rid)
         IN  IF Len(gameName) = Len(rid)
             THEN {BadRid}
                  \cup { [ok |-> TRUE, name |-> gameName, gameCounter |-> gc,
                          playerId |-> p] : gc \in StrayInts, p \in StrayInts }
             ELSE LET r == scan_two_ints(after(rid, Len(gameName) + 1))
                  IN  IF r.n # 2 \/ r.playerId >= MAX_PLAYERS \/ r.playerId < 0
                      THEN {BadRid}
                      ELSE { [ok |-> TRUE, name |-> gameName,
                              gameCounter |-> r.gc, playerId |-> r.playerId] }

\* find_open_game: the first unfinished game of that name and counter, 0 for
\* none
find_open_game(gs, gameName, gameCounter) ==
    LET found == { g \in 1 .. Len(gs) :
                     /\ GameNameText(gs[g].name) = gameName
                     /\ gs[g].counter = gameCounter
                     /\ ~gs[g].finished }
    IN  IF found = {} THEN 0 ELSE CHOOSE g \in found : \A o \in found : g <= o

\* the rid lines clients write: the ids of games and players that may or
\* may not exist, ids with a part left out, replaced or followed by a tail,
\* and no line at all
RidLines ==
    { RID \o name \o <<",">> \o gc \o <<",">> \o p :
        name \in {<<"g">>, <<"h">>}, gc \in {<<"1">>, <<"2">>},
        p \in {<<"0">>, <<"1">>, <<"2">>} }
    \cup { RID \o <<"g", ",", "1", ",">> \o p \o tail :
             p \in {<<"0">>, <<"2", "6">>, <<"-", "1">>, <<>>},
             tail \in {<<>>, <<"x">>} }
    \cup { RID \o <<"g", ",">> \o gc \o <<",", "0">> :
             gc \in {<<" ", "1">>, <<"x">>, <<>>} }
    \cup { RID, RID \o <<"g">>, RID \o <<",", "1", ",", "0">>,
           <<"g", ",", "1", ",", "0">>, <<>>, EOF }

\* reconnect_game up to its wait: the rid line is read and parsed,
\* find_open_game looks for the game, the player id is compared with the
\* game's playerCount; no is written and the connection closed on a failure
ReconnectRead(c) ==
    /\ Running
    /\ conns[c].pc = "RECONNECT"
    /\ \E line \in RidLines :
          \E rid \in get_and_parse_rid(line) :
             LET gameId == IF rid.ok
                           THEN find_open_game(games, rid.name, rid.gameCounter)
                           ELSE 0
                 bad == gameId = 0 \/ rid.playerId >= games[gameId].playerCount
             IN  /\ probe' = [pc |-> "rid", conn |-> c, line |-> line,
                              reply |-> IF bad THEN "no" ELSE "none"]
                 /\ conns' = [conns EXCEPT ![c] =
                       IF bad
                       THEN [@ EXCEPT !.pc = "closed", !.closes = @ + 1]
                       ELSE [@ EXCEPT !.pc = "spin", !.game = gameId,
                                      !.pid = rid.playerId]]
    /\ UNCHANGED <<hubVars, srv, sig, locks, lobbies, games, driver, main, hist>>

\* a server with one game, under way or finished, and NewClients
\* connections accepted
ConnInit ==
    /\ HubOff
    /\ \E finished \in BOOLEAN, rp \in -1 .. (MIN_PLAYERS - 1) :
          LET details == StatfileEntry(1, 1, 1, MIN_PLAYERS)
              members == [k \in 1 .. MIN_PLAYERS |-> [name |-> k, conn |-> k]]
          IN  /\ srv = [timeout |-> 1, statfile |-> <<details>>, accepting |-> TRUE,
                        key |-> ServerKey]
              /\ lobbies = << [name |-> 1, details |-> details,
                               players |-> members, open |-> FALSE] >>
              /\ games = << [NewGame(1, 1, members, details, rp)
                                 EXCEPT !.finished = finished] >>
              /\ driver = << [NewDriver EXCEPT
                                 !.pc = IF finished THEN "done" ELSE "start"] >>
              /\ conns = [c \in 1 .. (MIN_PLAYERS + NewClients) |->
                            IF c <= MIN_PLAYERS
                            THEN [NewConn EXCEPT !.pc = "in_game",
                                                 !.details = details,
                                                 !.gameName = 1, !.playerName = c,
                                                 !.lobby = 1, !.game = 1,
                                                 !.pid = c - 1,
                                                 !.closes = IF finished THEN 1 ELSE 0]
                            ELSE [NewConn EXCEPT !.pc = "accepted"]]
    /\ sig = [sigintReceived |-> FALSE, sigtermReceived |-> FALSE, sigints |-> 0]
    /\ locks = [joinLobbyLock |-> 0, shutdownLock |-> "free"]
    /\ main = [pc |-> "serving", i |-> 0, exit |-> "NONE"]
    /\ hist = << [NewHist EXCEPT !.lobby = 1] >>
    /\ probe = [pc |-> "off"]

\* the connection threads; the games' drivers are not followed
ConnNext ==
    \/ \E c \in DOMAIN conns : AuthRead(c)
    \/ \E c \in DOMAIN conns : JoinRead(c)
    \/ \E c \in DOMAIN conns : JoinFind(c)
    \/ \E c \in DOMAIN conns : JoinLobby(c)
    \/ \E c \in DOMAIN conns : ReconnectRead(c)
    \/ \E c \in DOMAIN conns : ReconnectSpin(c)
    \/ \E c \in DOMAIN conns : ReconnectSwap(c)

SpecConn == ConnInit /\ [][ConnNext]_vars

(***************************************************************************)
(* ass4/server.c: print_scores called on its own for the games of a        *)
(* server.  A score line is a record with name, tokens and points.         *)
(***************************************************************************)
\* highest score of a player in one game
MaxScore == 1

ScoreNames == PlayerNames \cup {3}

\* what a player holds: nothing, or a purple token and a wild
ScoreHoldings == {Zero5, [s \in Slots |-> IF s \in {0, WILD} THEN 1 ELSE 0]}

\* shared.c count_tokens over the numPiles first piles
RECURSIVE count_tokens(_, _)
count_tokens(tokenPool, numPiles) ==
    IF numPiles = 0 THEN 0
    ELSE tokenPool[numPiles - 1] + count_tokens(tokenPool, numPiles - 1)

\* score_sort with the tokens compared the other way round
score_sort_tokens_descending(p1, p2) ==
    IF p2.points - p1.points = 0 THEN p2.tokens - p1.tokens
    ELSE p2.points - p1.points

\* score_sort: below zero when p1 comes before p2
score_sort(p1, p2) ==
    LET pointCompare == p2.points - p1.points
    IN  IF pointCompare = 0 THEN p1.tokens - p2.tokens ELSE pointCompare

\* print_scores' innermost loop: the last entry of that name, 0 for none
find_score(scores, name) ==
    LET found == { j \in 1 .. Len(scores) : scores[j].name = name }
    IN  IF found = {} THEN 0 ELSE CHOOSE j \in found : \A o \in found : o <= j

\* print_scores' loop over the players of game G, from playerId on
RECURSIVE add_player_scores(_, _, _)
add_player_scores(scores, G, playerId) ==
    IF playerId >= G.playerCount THEN scores
    ELSE LET player == G.players[playerId]
             j == find_score(scores, player.name)
             entry == IF j = 0
                      THEN [name |-> player.name, tokens |-> 0, points |-> 0]
                      ELSE scores[j]
             filled == [entry EXCEPT
                           !.tokens = @ + count_tokens(player.tokens, TOKEN_SLOTS),
                           !.points = @ + player.score]
         IN  add_player_scores(
                 IF j = 0 THEN Append(scores, filled)
                 ELSE [scores EXCEPT ![j] = filled],
                 G, playerId + 1)

\* print_scores' loop over the games, from game i on
RECURSIVE add_game_scores(_, _, _)
add_game_scores(scores, gs, i) ==
    IF i > Len(gs) THEN scores
    ELSE add_game_scores(add_player_scores(scores, gs[i], 0), gs, i + 1)

\* qsort: the orders of scores its comparison function allows
qsort(scores) ==
    { [k \in 1 .. Len(scores) |-> scores[perm[k]]] :
        perm \in { q \in [1 .. Len(scores) -> 1 .. Len(scores)] :
                     /\ \A a, b \in 1 .. Len(scores) : a # b => q[a] # q[b]
                     /\ \A a, b \in 1 .. Len(scores) :
                           a < b => score_sort(scores[q[a]], scores[q[b]]) <= 0 } }

ScoresHeader == [name |-> "Player Name", tokens |-> "Total Tokens", points |-> "Total Points"]

\* print_scores: the lines it may write for the games gs
print_scores(gs) ==
    { <<ScoresHeader>> \o table : table \in qsort(add_game_scores(<<>>, gs, 1)) }

ScoresInit ==
    /\ HubOff
    /\ ServerOff
    /\ \E gs \in [1 .. 2 -> [playerCount : {MIN_PLAYERS},
                            players : [0 .. (MIN_PLAYERS - 1) ->
                                         [name : ScoreNames,
                                          tokens : ScoreHoldings,
                                          score : 0 .. MaxScore]]]] :
          probe = [pc |-> "call", games |-> gs, lines |-> <<>>]

\* the call of print_scores
ScoresCall ==
    /\ probe.pc = "call"
    /\ \E lines \in print_scores(probe.games) :
          probe' = [probe EXCEPT !.pc = "returned", !.lines = lines]
    /\ UNCHANGED <<hubVars, srvVars>>

SpecScores == ScoresInit /\ [][ScoresCall]_vars

(***************************************************************************)
(* server->games as add_game_to_server reallocs it under running drivers.  *)
(* games[g] is the struct Game at server->games[g], which handlers, the    *)
(* scoreboard and shutdown_games read; probe.own[g] is the struct Game at  *)
(* the address game_thread took for its game, and probe.same[g] tells that *)
(* this address still lies in server->games.  The players array and the    *)
(* GameData are reached through pointers and so are shared by both.        *)
(***************************************************************************)
\* the struct Game the other threads see once the driver has written own to
\* the address it holds: the same when the address is still in server->games,
\* otherwise only what lies behind the pointers of the struct
seen_by_others(G, own, same) ==
    IF same THEN own
    ELSE [G EXCEPT !.players = own.players, !.finished = own.finished,
                   !.reconnectingPlayer = own.reconnectingPlayer]

\* realloc of server->games: the array may move unless it is the first malloc
realloc_moves(gs) == IF gs = <<>> THEN {FALSE} ELSE BOOLEAN

GrowInit ==
    /\ HubOff
    /\ LET details == StatfileEntry(1, 1, 1, MIN_PLAYERS)
           members == [k \in 1 .. MIN_PLAYERS |-> [name |-> k, conn |-> k]]
           first == NewGame(1, 1, members, details, -1)
       IN  /\ srv = [timeout |-> 0, statfile |-> <<details>>, accepting |-> TRUE,
                     key |-> ServerKey]
           /\ lobbies = << [name |-> 1, details |-> details,
                            players |-> members, open |-> FALSE],
                           [name |-> 1, details |-> details,
                            players |-> << [name |-> 1, conn |-> MIN_PLAYERS + 1] >>,
                            open |-> TRUE] >>
           /\ games = << first >>
           /\ conns = [c \in 1 .. (MIN_PLAYERS + 2) |->
                         IF c <= MIN_PLAYERS
                         THEN [NewConn EXCEPT !.pc = "in_game", !.details = details,
                                              !.gameName = 1, !.playerName = c,
                                              !.lobby = 1, !.game = 1, !.pid = c - 1]
                         ELSE IF c = MIN_PLAYERS + 1
                         THEN [NewConn EXCEPT !.pc = "joined", !.details = details,
                                              !.gameName = 1, !.playerName = 1,
                                              !.lobby = 2]
                         ELSE NewConn]
           /\ probe = [pc |-> "heap", own |-> << first >>, same |-> << TRUE >>]
    /\ sig = [sigintReceived |-> FALSE, sigtermReceived |-> FALSE, sigints |-> 0]
    /\ locks = [joinLobbyLock |-> 0, shutdownLock |-> "free"]
    /\ driver = << NewDriver >>
    /\ main = [pc |-> "serving", i |-> 0, exit |-> "NONE"]
    /\ hist = << [NewHist EXCEPT !.lobby = 1] >>

\* game_thread takes the address of server->games[gameId], writes the opening
\* messages and draws the board
GrowStart(g) ==
    /\ Running
    /\ driver[g].pc = "start"
    /\ LET G == lib_draw_times(games[g], BOARD_SIZE)
           pos == next_position(G, G.playerCount, FALSE)
       IN  /\ games' = [games EXCEPT ![g] = G]
           /\ probe' = [probe EXCEPT !.own[g] = G, !.same[g] = TRUE]
           /\ driver' = [driver EXCEPT ![g].pc = pos.pc, ![g].player = pos.player]
           /\ hist' = [hist EXCEPT ![g] =
                  remember(@, greetings(games[g], 0)
                              \o newcards(G, Len(games[g].board)))]
    /\ UNCHANGED <<hubVars, srv, sig, locks, lobbies, conns, main>>

\* do_what reads a legal move and applies it through the driver's pointer
GrowMove(g) ==
    /\ Running
    /\ CanReply(g)
    /\ \E m \in Replies(probe.own[g], driver[g].player) :
          /\ lib_message_ok(probe.own[g], driver[g].player, m)
          /\ LET G == apply_message(probe.own[g], driver[g].player, m)
             IN  /\ probe' = [probe EXCEPT !.own[g] = G]
                 /\ games' = [games EXCEPT
                                 ![g] = seen_by_others(@, G, probe.same[g])]
                 /\ driver' = [driver EXCEPT ![g] =
                        end_turn(note(@, "valid"), G, "NOTHING_WRONG", FALSE)]
    /\ UNCHANGED <<hubVars, srv, sig, locks, lobbies, conns, main, hist>>

\* join_lobby, with start_game and add_game_to_server when the lobby fills:
\* when realloc moves the array, the address of every driver that has
\* taken one is left behind
GrowJoin(c) ==
    /\ Running
    /\ conns[c].pc = "join"
    /\ LET l == conns[c].lobby
           L == [lobbies[l] EXCEPT
                    !.players = Append(@, [name |-> conns[c].playerName, conn |-> c])]
       IN  IF Len(L.players) = L.details.players
           THEN /\ lobbies' = [lobbies EXCEPT ![l] = [L EXCEPT !.open = FALSE]]
                /\ \E moved \in realloc_moves(games) :
                      LET new == NewGame(L.name, game_counter(games, L.name),
                                         sorted_players(L.players), L.details, -1)
                      IN  /\ games' = Append(games, new)
                          /\ probe' = [probe EXCEPT
                                !.own = Append(@, new),
                                !.same = Append(
                                    [g \in DOMAIN @ |->
                                        @[g] /\ (~moved \/ driver[g].pc = "start")],
                                    TRUE)]
                /\ driver' = Append(driver, NewDriver)
                /\ hist' = Append(hist, [NewHist EXCEPT !.lobby = l])
           ELSE /\ lobbies' = [lobbies EXCEPT ![l] = L]
                /\ UNCHANGED <<games, driver, hist, probe>>
    /\ locks' = [locks EXCEPT !.joinLobbyLock = 0]
    /\ conns' = [conns EXCEPT ![c].pc = "joined"]
    /\ UNCHANGED <<hubVars, srv, sig, main>>

GrowNext ==
    \/ \E c \in DOMAIN conns : JoinRead(c)
    \/ \E c \in DOMAIN conns : JoinFind(c)
    \/ \E c \in DOMAIN conns : GrowJoin(c)
    \/ \E g \in GameIds : GrowStart(g)
    \/ \E g \in GameIds : DriverPrompt(g)
    \/ \E g \in GameIds : GrowMove(g)

SpecGrow == GrowInit /\ [][GrowNext]_vars

(***************************************************************************)
(* print_scores beside the clients that join: probe holds the locals of    *)
(* one call, totalPlayers (the length of its scores array), the game index *)
(* i of its second loop and the entries of scores written so far.          *)
(***************************************************************************)
ScoreboardInit ==
    /\ HubOff
    /\ srv = [timeout |-> 0, statfile |-> LobbyStatfile, accepting |-> TRUE, key |-> ServerKey]
    /\ sig = [sigintReceived |-> FALSE, sigtermReceived |-> FALSE, sigints |-> 0]
    /\ locks = [joinLobbyLock |-> 0, shutdownLock |-> "free"]
    /\ lobbies = <<>>
    /\ games = <<>>
    /\ driver = <<>>
    /\ conns = [c \in 1 .. MaxJoiners |-> NewConn]
    /\ main = [pc |-> "serving", i |-> 0, exit |-> "NONE"]
    /\ hist = <<>>
    /\ probe = [pc |-> "scores", totalPlayers |-> 0, i |-> 1, scores |-> <<>>,
                lines |-> <<>>]

\* print_scores' first loop over the first n games: totalPlayers
RECURSIVE count_players(_, _)
count_players(gs, n) ==
    IF n = 0 THEN 0 ELSE gs[n].playerCount + count_players(gs, n - 1)

\* print_scores' first loop: the header is written and the players of the
\* games are counted
ScoresCount ==
    /\ probe.pc = "scores"
    /\ probe' = [probe EXCEPT
                    !.pc = "fill",
                    !.totalPlayers = count_players(games, Len(games)),
                    !.lines = <<ScoresHeader>>]
    /\ UNCHANGED <<hubVars, srvVars>>

\* one pass of print_scores' second loop over the games, with gameCount
\* read anew; after the last game the table is sorted and written
ScoresFill ==
    /\ probe.pc = "fill"
    /\ IF probe.i <= Len(games)
       THEN probe' = [probe EXCEPT
                         !.i = @ + 1,
                         !.scores = add_player_scores(@, games[probe.i], 0)]
       ELSE \E table \in qsort(probe.scores) :
               probe' = [probe EXCEPT !.pc = "returned", !.lines = @ \o table]
    /\ UNCHANGED <<hubVars, srvVars>>

ScoreboardNext ==
    \/ ScoresCount
    \/ ScoresFill
    \/ \E c \in DOMAIN conns : JoinRead(c)
    \/ \E c \in DOMAIN conns : JoinFind(c)
    \/ \E c \in DOMAIN conns : JoinLobby(c)

SpecScoreboard == ScoreboardInit /\ [][ScoreboardNext]_vars

(***************************************************************************)
(* ass4/shared.c: get_keyfile.  A file is the sequence of its characters.  *)
(***************************************************************************)
\* longest keyfile tried
MaxFile == 4

NL == "\n"

FileChars == {"k", "x", NL}

RECURSIVE Files(_)
Files(n) ==
    IF n = 0 THEN {<<>>}
    ELSE Files(n - 1)
         \cup { Append(t, ch) : t \in { f \in Files(n - 1) : Len(f) = n - 1 },
                                ch \in FileChars }

\* where the first newline of text at or after place i is, Len(text) + 1 for none
RECURSIVE newline_from(_, _)
newline_from(text, i) ==
    IF i > Len(text) THEN Len(text) + 1
    ELSE IF text[i] = NL THEN i
    ELSE newline_from(text, i + 1)

\* course library read_line on a file at its start: the characters before
\* the first newline or the end of the file, how many file characters were
\* consumed, and the count returned, which is not positive when the line
\* has no characters
lib_read_line(text) ==
    LET stop == newline_from(text, 1)
        line == SubSeq(text, 1, stop - 1)
    IN  [line |-> line,
         pos |-> IF stop > Len(text) THEN Len(text) ELSE stop,
         n |-> IF Len(line) > 0 THEN Len(line)
               ELSE IF stop > Len(text) THEN -1 ELSE 0]

\* does_file_end_newline answering false for every file
newline_not_looked_for(text) == FALSE

\* does_file_end_newline on a file of at least one character
does_file_end_newline(text) == text[Len(text)] = NL

\* get_keyfile: whether the file is valid, and the key read
get_keyfile(text) ==
    LET r == lib_read_line(text)
    IN  IF r.n <= 0 THEN [valid |-> FALSE, key |-> <<>>]
        ELSE [valid |-> ~does_file_end_newline(text) /\ r.pos = Len(text),
              key |-> r.line]

KeyfileInit ==
    /\ HubOff
    /\ ServerOff
    /\ \E text \in Files(MaxFile) :
          probe = [pc |-> "call", text |-> text,
                   result |-> [valid |-> FALSE, key |-> <<>>]]

\* the call of get_keyfile
KeyfileCall ==
    /\ probe.pc = "call"
    /\ probe' = [probe EXCEPT !.pc = "returned", !.result = get_keyfile(probe.text)]
    /\ UNCHANGED <<hubVars, srvVars>>

SpecKeyfile == KeyfileInit /\ [][KeyfileCall]_vars

(***************************************************************************)
(* ass3/hub.c: handle_input on the characters of a player's line.          *)
(***************************************************************************)
\* most tokens of one kind the player holds when the line arrives
MaxHand == 1

MSG_WILD_TAKE == <<"w", "i", "l", "d">>
MSG_TOKEN_TAKE == <<"t", "a", "k", "e">>
MSG_CARD_PURCHASE == <<"p", "u", "r", "c", "h", "a", "s", "e">>

\* lib/util.c has_any_whitespace
has_any_whitespace(input) == \E i \in 1 .. Len(input) : input[i] = " "

\* sscanf with a format of %d's parted by the characters of seps: the
\* numbers converted before the first mismatch
RECURSIVE scan_ints(_, _)
scan_ints(s, seps) ==
    LET a == scan_int(s)
    IN  IF ~a.ok THEN <<>>
        ELSE IF seps = <<>> \/ a.rest = <<>> \/ Head(a.rest) # Head(seps)
             THEN <<a.value>>
             ELSE <<a.value>> \o scan_ints(Tail(a.rest), Tail(seps))

\* handle_input's tests on the characters: the message its sscanf reads,
\* OtherMsg for a line it turns down for its shape
read_input(input) ==
    IF input = MSG_WILD_TAKE THEN WildMsg
    ELSE IF starts_with(input, MSG_TOKEN_TAKE)
    THEN LET info == after(input, Len(MSG_TOKEN_TAKE))
             v == scan_ints(info, <<",", ",", ",">>)
         IN  IF has_any_whitespace(info) \/ Len(v) # NUM_COLOURS THEN OtherMsg
             ELSE [type |-> "take", tokens |-> [c \in Colours |-> v[c + 1]]]
    ELSE IF starts_with(input, MSG_CARD_PURCHASE)
    THEN LET info == after(input, Len(MSG_CARD_PURCHASE))
             v == scan_ints(info, <<":", ",", ",", ",", ",">>)
         IN  IF has_any_whitespace(info) \/ Len(v) # TOKEN_SLOTS + 1 THEN OtherMsg
             ELSE [type |-> "purchase", cardId |-> v[1],
                   tokens |-> [k \in Slots |-> v[k + 2]]]
    ELSE OtherMsg

\* handle_input on a line
handle_line(g, playerId, input) == handle_input(g, playerId, read_input(input))

\* the lines tried
HubLines ==
    { <<"w", "i", "l", "d">>,
      <<"w", "i", "l", "d", "x">>,
      <<"x">>,
      <<>>,
      MSG_TOKEN_TAKE \o <<"1", ",", "1", ",", "1", ",", "0">>,
      MSG_TOKEN_TAKE \o <<"1", ",", "1", ",", "1", ",", "0", "x">>,
      MSG_TOKEN_TAKE \o <<"1", ",", "1", ",", "1", ",", "0", ",", "5">>,
      MSG_TOKEN_TAKE \o <<"1", ",", "1", ",", "1", ",", "0", " ">>,
      MSG_TOKEN_TAKE \o <<" ", "1", ",", "1", ",", "1", ",", "0">>,
      MSG_TOKEN_TAKE \o <<"1", ",", "1", ",", "1">>,
      MSG_TOKEN_TAKE \o <<"1", ",", "1", ",", "0", ",", "0">>,
      MSG_TOKEN_TAKE \o <<"1", ",", "1", ",", "1", ",", "-", "1">>,
      MSG_TOKEN_TAKE \o <<"+", "1", ",", "1", ",", "1", ",", "0">>,
      MSG_TOKEN_TAKE \o <<"1", ";", "1", ",", "1", ",", "0">>,
      MSG_CARD_PURCHASE \o <<"0", ":", "1", ",", "0", ",", "0", ",", "0", ",", "0">>,
      MSG_CARD_PURCHASE \o <<"0", ":", "1", ",", "0", ",", "0", ",", "0", ",", "0", ",", "9">>,
      MSG_CARD_PURCHASE \o <<"0", ":", "1", ",", "0", ",", "0", ",", "0", ",", "0", "x">>,
      MSG_CARD_PURCHASE \o <<"0", ":", "1", ",", "0", ",", "0", ",", "0", ",", "0", " ">>,
      MSG_CARD_PURCHASE \o <<"0", ":", "1", ",", "0", ",", "0", ",", "0">>,
      MSG_CARD_PURCHASE \o <<"0", ":", "0", ",", "0", ",", "0", ",", "0", ",", "1">>,
      MSG_CARD_PURCHASE \o <<"0", ":", "0", ",", "0", ",", "0", ",", "0", ",", "0">>,
      MSG_CARD_PURCHASE \o <<"9", ":", "1", ",", "0", ",", "0", ",", "0", ",", "0">>,
      MSG_CARD_PURCHASE \o <<"-", "1", ":", "1", ",", "0", ",", "0", ",", "0", ",", "0">>,
      MSG_CARD_PURCHASE \o <<"0", ",", "1", ",", "0", ",", "0", ",", "0", ",", "0">> }

LineInit ==
    /\ HubOff
    /\ ServerOff
    /\ \E held \in [Slots -> 0 .. MaxHand], input \in HubLines :
          LET g == start_new_game(
                      [tokens |-> Zero4, cards |-> <<>>, deck |-> HubDeck,
                       players |-> [p \in 0 .. (HubPlayers - 1) |->
                                       IF p = 0 THEN [NewPlayer EXCEPT !.tokens = held]
                                       ELSE NewPlayer],
                       numPlayers |-> HubPlayers, maxPoints |-> 0],
                      1, 2)
          IN  probe = [pc |-> "call", game |-> g, input |-> input,
                       result |-> [ok |-> FALSE, game |-> g]]

\* the call of handle_input for player 0
LineCall ==
    /\ probe.pc = "call"
    /\ probe' = [probe EXCEPT !.pc = "returned",
                              !.result = handle_line(probe.game, 0, probe.input)]
    /\ UNCHANGED <<hubVars, srvVars>>

SpecLine == LineInit /\ [][LineCall]_vars



(***************************************************************************)
(* The purchase rule as the specification words it (section 4.2).          *)
(***************************************************************************)
Need(player, card, c) ==
    IF card.price[c] - player.discounts[c] > 0
    THEN card.price[c] - player.discounts[c]
    ELSE 0

Shortfall(player, card, c) ==
    IF Need(player, card, c) - player.tokens[c] > 0
    THEN Need(player, card, c) - player.tokens[c]
    ELSE 0

Shortfalls(player, card) ==
    Shortfall(player, card, 0) + Shortfall(player, card, 1)
        + Shortfall(player, card, 2) + Shortfall(player, card, 3)

Affordable(player, card) == Shortfalls(player, card) <= player.tokens[WILD]

CanonicalSpend(player, card) ==
    [s \in Slots |->
        IF s = WILD THEN Shortfalls(player, card)
        ELSE IF Need(player, card, s) < player.tokens[s]
             THEN Need(player, card, s)
             ELSE player.tokens[s]]

(***************************************************************************)
(* C10  Canonical purchase: whenever the hub awaits a move, a purchase of  *)
(* card i by the player to move is accepted iff i is in [0, boardSize),    *)
(* the player can afford the card, and the five counts submitted equal the *)
(* canonical decomposition; every other tuple is rejected.                 *)
(***************************************************************************)
C10_CanonicalPurchase ==
    hub.pc = "loop" =>
        \A m \in PurchaseMsgs :
            purchase_accepted(HubGame, hub.curPlayer, m)
            <=> /\ m.cardId >= 0
                /\ m.cardId < Len(hub.cards)
                /\ Affordable(hub.players[hub.curPlayer], hub.cards[m.cardId + 1])
                /\ m.tokens = CanonicalSpend(hub.players[hub.curPlayer],
                                             hub.cards[m.cardId + 1])

\* a purchase that spends a wild has been accepted
C10_Witness == hubLast.type = "purchase" /\ hubLast.ok /\ hubLast.wilds > 0

(***************************************************************************)
(* Claims about one game of the server.                                    *)
(***************************************************************************)
\* someone in G has the winning score
ScoreReached(G) == \E p \in PlayerIds(G) : G.players[p].score >= G.winScore

\* the driver of game g is serving a turn: a dowhat is due, out, or waiting
\* on the player's return
InTurn(g) ==
    driver[g].pc \in {"turn", "read", "wait_entry", "wait_lock", "waiting", "woken"}

\* the sockets the closing message went to have been closed
ClosedAfter(g) ==
    /\ games[g].finished
    /\ \A c \in hist[g].term[1].to : conns[c].closes >= 1

(***************************************************************************)
(* C1  Two-strike rule: two invalid replies in a row from player p stop    *)
(* the game; the driver then broadcasts invalid with p's letter to every   *)
(* player, marks the game finished, closes the sockets and sends no        *)
(* further dowhat.  One invalid reply followed by a valid one does not end *)
(* the game.                                                               *)
(***************************************************************************)
C1_TwoStrikes ==
    \A g \in GameIds :
        LET D == driver[g]
            T == hist[g].term
        IN  /\ (D.prevReply = "invalid" /\ D.lastReply = "invalid")
                  => /\ D.pc \in {"final", "done"}
                     /\ D.err = "PROTOCOL_ERROR"
                     /\ D.gameStopped
            /\ (D.pc = "done" /\ D.err = "PROTOCOL_ERROR")
                  => /\ Len(T) = 1
                     /\ T[1].kind = "invalid"
                     /\ T[1].letter = D.who
                     /\ T[1].by = "driver"
                     /\ Cardinality(T[1].to) = games[g].playerCount
                     /\ ClosedAfter(g)
                     /\ ~hist[g].late
            /\ (D.prevReply = "invalid" /\ D.lastReply = "valid")
                  => /\ D.err = "NOTHING_WRONG"
                     /\ ~D.gameStopped
                     /\ \A k \in 1 .. Len(T) : T[k].kind = "eog"

\* player B has been named in an invalid broadcast
C1_Witness ==
    \E g \in GameIds :
        /\ Len(hist[g].term) = 1
        /\ hist[g].term[1].kind = "invalid"
        /\ hist[g].term[1].letter = 1
        /\ driver[g].who = 1

(***************************************************************************)
(* C2  Unrecovered disconnect: when a player's stream ends and the wait    *)
(* for the player fails, the driver broadcasts disco with the player's     *)
(* letter, marks the game finished and closes the sockets; and with a      *)
(* server timeout of 0 no reconnect to the game is ever accepted.          *)
(***************************************************************************)
C2_Disconnect ==
    \A g \in GameIds :
        LET D == driver[g]
            T == hist[g].term
        IN  /\ (D.pc = "done" /\ D.err = "PLAYER_CLOSED")
                  => /\ Len(T) = 1
                     /\ T[1].kind = "disco"
                     /\ T[1].letter = D.who
                     /\ T[1].by = "driver"
                     /\ ClosedAfter(g)
            /\ srv.timeout = 0 => hist[g].accepted = {}

(***************************************************************************)
(* C3  Reconnect success: when a reconnect handler has swapped in the      *)
(* player's new streams and signalled before the wait reached its          *)
(* deadline, the driver does not give the player up: no disco follows.     *)
(***************************************************************************)
C3_ReconnectWakes ==
    \A g \in GameIds :
        driver[g].reconnected
            => ~(/\ driver[g].pc \in {"final", "done"}
                 /\ driver[g].err = "PLAYER_CLOSED")

(***************************************************************************)
(* C4  Game over by score: the score test is made only between rounds.  A  *)
(* round is not begun once a player has the winning score; a game that     *)
(* ends with cards on the board and no fault has run its round to the last *)
(* player; and after the winning score is reached the later players of the *)
(* round are still served.                                                 *)
(***************************************************************************)
C4_ScoreAtRoundBoundary ==
    \A g \in GameIds :
        LET D == driver[g]
            G == games[g]
        IN  /\ (InTurn(g) /\ D.player = 0) => ~ScoreReached(G)
            /\ (D.pc \in {"final", "done"} /\ D.err = "NOTHING_WRONG" /\ Len(G.board) > 0)
                  => /\ ScoreReached(G)
                     /\ D.player = G.playerCount
            /\ (/\ ScoreReached(G)
                /\ Len(G.board) > 0
                /\ ~D.gameStopped
                /\ D.player < G.playerCount)
                  => InTurn(g)

\* a later player of the round holds a dowhat after the winning score was reached
C4_Witness ==
    \E g \in GameIds :
        /\ ScoreReached(games[g])
        /\ Len(games[g].board) > 0
        /\ driver[g].pc = "read"
        /\ driver[g].player > 0

(***************************************************************************)
(* C5  Game over by empty board: once the board is empty the driver serves *)
(* no further turn, whatever the scores; it ends the game with eog.        *)
(***************************************************************************)
C5_EmptyBoardEnds ==
    \A g \in GameIds :
        LET D == driver[g]
            T == hist[g].term
        IN  (D.pc # "start" /\ Len(games[g].board) = 0)
                => /\ D.pc \in {"final", "done"}
                   /\ D.err = "NOTHING_WRONG"
                   /\ D.pc = "done"
                         => /\ Len(T) = 1
                            /\ T[1].kind = "eog"
                            /\ T[1].by = "driver"
                            /\ ClosedAfter(g)

\* the board was emptied in the middle of a round, with no winning score
C5_Witness ==
    \E g \in GameIds :
        /\ Len(games[g].board) = 0
        /\ ~ScoreReached(games[g])
        /\ driver[g].pc = "done"
        /\ driver[g].player < games[g].playerCount
        /\ Len(hist[g].term) = 1

(***************************************************************************)
(* Claims about the lobbies.                                               *)
(***************************************************************************)
LobbyIds == 1 .. Len(lobbies)

\* the places connection c holds in the lobbies
Seats(c) ==
    { <<l, k>> \in LobbyIds \X (1 .. MaxJoiners + 1) :
        k <= Len(lobbies[l].players) /\ lobbies[l].players[k].conn = c }

\* the games made from lobby l
GamesOf(l) == { g \in GameIds : hist[g].lobby = l }

(***************************************************************************)
(* C8  No double admission: a client that has joined sits in exactly one   *)
(* lobby, once, and a client that has not sits in none; no lobby holds     *)
(* more players than its statfile entry asks for; a lobby is closed        *)
(* exactly when it holds that many; a closed lobby has made exactly one    *)
(* game with one driver thread, an open lobby none.                        *)
(***************************************************************************)
C8_NoDoubleAdmission ==
    /\ \A c \in DOMAIN conns :
          Cardinality(Seats(c)) = IF conns[c].pc = "joined" THEN 1 ELSE 0
    /\ \A l \in LobbyIds :
          /\ Len(lobbies[l].players) <= lobbies[l].details.players
          /\ lobbies[l].open <=> Len(lobbies[l].players) < lobbies[l].details.players
          /\ Cardinality(GamesOf(l)) = IF lobbies[l].open THEN 0 ELSE 1
    /\ Len(driver) = Len(games)
    /\ \A g \in GameIds : hist[g].lobby \in LobbyIds

\* a lobby has closed into a game while another lobby is being filled
C8_Witness ==
    \E l1, l2 \in LobbyIds :
        /\ ~lobbies[l1].open
        /\ Cardinality(GamesOf(l1)) = 1
        /\ lobbies[l2].open
        /\ Len(lobbies[l2].players) = 1

(***************************************************************************)
(* C9  Lobby matching is by game name: no two open lobbies share a name;   *)
(* every player of a lobby asked for the lobby's name; and a game's        *)
(* initial tokens, winning score and player count are those of the port    *)
(* the first player of its lobby arrived on.                               *)
(***************************************************************************)
C9_LobbyByName ==
    /\ \A l1, l2 \in LobbyIds :
          (lobbies[l1].open /\ lobbies[l2].open /\ lobbies[l1].name = lobbies[l2].name)
              => l1 = l2
    /\ \A l \in LobbyIds :
          \A k \in 1 .. Len(lobbies[l].players) :
              conns[lobbies[l].players[k].conn].gameName = lobbies[l].name
    /\ \A g \in GameIds :
          LET first == conns[lobbies[hist[g].lobby].players[1].conn].details
          IN  /\ games[g].name = lobbies[hist[g].lobby].name
              /\ games[g].initialTokens = first.tokens
              /\ \A c \in Colours : games[g].tokenCount[c] = first.tokens
              /\ games[g].winScore = first.points
              /\ games[g].playerCount = first.players

\* a game whose later player arrived on a port with other parameters
C9_Witness ==
    \E g \in GameIds :
        \E k \in 2 .. Len(lobbies[hist[g].lobby].players) :
            conns[lobbies[hist[g].lobby].players[k].conn].details
                # conns[lobbies[hist[g].lobby].players[1].conn].details

(***************************************************************************)
(* Claims about signals and shutdown.                                      *)
(***************************************************************************)
\* the main thread has written to game g's players
MainTouched(g) == \E k \in 1 .. Len(hist[g].term) : hist[g].term[k].by = "main"

(***************************************************************************)
(* C6  Orderly shutdown: when the server has exited with code 0 after      *)
(* SIGTERM, every game that was ever started is finished and has had its   *)
(* closing message, every driver thread has ended and no acceptor runs;    *)
(* also for a game whose lobby a connection handler filled while the       *)
(* shutdown was under way.                                                 *)
(***************************************************************************)
C6_OrderlyShutdown ==
    (main.pc = "exited" /\ main.exit = "NORMAL_EXIT")
        => /\ ~srv.accepting
           /\ \A g \in GameIds :
                 /\ games[g].finished
                 /\ Len(hist[g].term) = 1
                 /\ driver[g].pc = "done"

C11_Affordability ==
    probe.pc = "returned" =>
        /\ probe.result <=> Affordable(probe.player, probe.card)
        /\ Shortfalls(probe.player, probe.card) > probe.player.tokens[WILD]
               => ~probe.result

\* a card two colours short was afforded, every wild the player holds used
C11_Witness ==
    /\ probe.pc = "returned"
    /\ probe.result
    /\ Shortfall(probe.player, probe.card, 0) > 0
    /\ Shortfall(probe.player, probe.card, 1) > 0
    /\ Shortfalls(probe.player, probe.card) = probe.player.tokens[WILD]

(***************************************************************************)
(* C12  Token-take legality: a take is accepted iff each of its four       *)
(* counts is 0 or 1, exactly three are 1, and every colour with count 1    *)
(* has a non-empty pile on the board; with fewer than three non-empty      *)
(* piles every take is turned down.                                        *)
(***************************************************************************)
C12_TakeLegality ==
    probe.pc = "returned" /\ probe.msg.type = "take" =>
        LET piles == probe.game.tokens
            tokens == probe.msg.tokens
            ones == {c \in Colours : tokens[c] = 1}
        IN  /\ probe.result
                <=> /\ \A c \in Colours : tokens[c] \in {0, 1}
                    /\ Cardinality(ones) = 3
                    /\ \A c \in ones : piles[c] > 0
            /\ Cardinality({c \in Colours : piles[c] > 0}) < 3 => ~probe.result

\* a take of three colours was accepted with the fourth pile empty
C12_Witness ==
    /\ probe.pc = "returned"
    /\ probe.msg.type = "take"
    /\ probe.result
    /\ \E c \in Colours : probe.game.tokens[c] = 0

(***************************************************************************)
(* C13  Authentication gate: a connection goes on to join a lobby only if  *)
(* its first line is play followed by exactly the key, to reconnect only   *)
(* if it is reconnect followed by exactly the key, and gets the scores     *)
(* only if it is exactly scores; every other first line (a wrong key,      *)
(* extra characters, no line) is answered no, the connection is closed     *)
(* and no lobby or game changes.                                           *)
(***************************************************************************)
C13_AuthGate ==
    [][\A c \in DOMAIN conns :
          conns[c].pc = "accepted" /\ conns'[c].pc # "accepted"
          => LET line == probe'.line
             IN  /\ probe'.conn = c
                 /\ conns'[c].pc = "NEW" => line = PLAY \o srv.key
                 /\ conns'[c].pc = "RECONNECT" => line = RECONNECT \o srv.key
                 /\ probe'.auth = "SCORES" => line = SCORES
                 /\ conns'[c].pc \in {"NEW", "RECONNECT", "closed"}
                 /\ line \notin {PLAY \o srv.key, RECONNECT \o srv.key, SCORES}
                    => /\ probe'.reply = "no"
                       /\ probe'.auth = "INVALID_AUTH"
                       /\ conns'[c].pc = "closed"
                       /\ conns'[c].closes = conns[c].closes + 1
                       /\ UNCHANGED <<lobbies, games, driver, locks>>]_vars

\* a first line with the key and one character more was answered no while a
\* lobby was open
C13_Witness ==
    /\ probe.pc = "auth"
    /\ probe.line = (PLAY \o srv.key) \o <<"x">>
    /\ probe.reply = "no"
    /\ conns[probe.conn].pc = "closed"
    /\ \E l \in 1 .. Len(lobbies) : lobbies[l].open

(***************************************************************************)
(* The reconnect id as the specification words it (sections 4.1 and 4.5):  *)
(* rid, the game's name, a comma, its counter, a comma, the player's id.   *)
(***************************************************************************)
DecimalText(n) ==
    IF n < 10 THEN << Digits[n + 1] >>
    ELSE << Digits[(n \div 10) + 1], Digits[(n % 10) + 1] >>

RidTexts ==
    { [name |-> n, gameCounter |-> gc, playerId |-> p,
       line |-> RID \o GameNameText(n) \o <<",">> \o DecimalText(gc)
                    \o <<",">> \o DecimalText(p)] :
        n \in GameNames, gc \in 0 .. 9, p \in 0 .. MAX_PLAYERS }

\* line is the id of a slot of a game of gs that has not finished
NamesOpenSlot(gs, line) ==
    \E r \in RidTexts :
        /\ r.line = line
        /\ \E g \in 1 .. Len(gs) :
              /\ gs[g].name = r.name
              /\ gs[g].counter = r.gameCounter
              /\ ~gs[g].finished
              /\ r.playerId < gs[g].playerCount

(***************************************************************************)
(* C14  Reconnect-id validation: an authenticated reconnect whose rid line *)
(* is malformed, names no unfinished game of that name and counter, or     *)
(* carries a player id outside [0, playerCount) is answered no and closed  *)
(* with the game's handles and state unchanged; a finished game is never   *)
(* reconnected to.                                                         *)
(***************************************************************************)
C14_RidValidation ==
    [][\A c \in DOMAIN conns :
          /\ conns[c].pc = "RECONNECT" /\ conns'[c].pc # "RECONNECT"
             /\ ~NamesOpenSlot(games, probe'.line)
             => /\ probe'.reply = "no"
                /\ conns'[c].pc = "closed"
                /\ games' = games
          /\ conns[c].pc = "swap" /\ conns'[c].pc = "in_game"
             => ~games[conns[c].game].finished]_vars

\* the client's GameState shows game G: the board, every player's score,
\* discounts and tokens, and the four piles
ViewShows(view, G) ==
    /\ view.ok
    /\ view.playerCount = G.playerCount
    /\ view.board = G.board
    /\ \A p \in PlayerIds(G) :
          /\ view.players[p].score = G.players[p].score
          /\ view.players[p].discounts = G.players[p].discounts
          /\ view.players[p].tokens = G.players[p].tokens
    /\ \A c \in Colours : view.tokenCount[c] = G.tokenCount[c]

(***************************************************************************)
(* C15  Reconnect catch-up: a successful reconnect receives yes, playinfo  *)
(* with its letter and the player count, tokens with the initial count, a  *)
(* newcard for each card on the board in board order and a player line     *)
(* for each player in letter order; once the client has applied them its   *)
(* board, players and four piles equal the server's for that game.         *)
(***************************************************************************)
C15_CatchupFaithful ==
    [][\A c \in DOMAIN conns :
          conns[c].pc = "catchup" /\ conns'[c].pc = "in_game"
          => LET G == games'[conns[c].game]
             IN  /\ probe'.sent = reconnect_header(G, conns[c].pid)
                                  \o catchup_cards(G) \o catchup_players(G)
                 /\ ViewShows(probe'.view, G)]_vars

\* the seats of the games gs that carry the name
SeatsNamed(gs, name) ==
    { seat \in (1 .. Len(gs)) \X (0 .. (MAX_PLAYERS - 1)) :
        /\ seat[2] < gs[seat[1]].playerCount
        /\ gs[seat[1]].players[seat[2]].name = name }

RECURSIVE SumOver(_, _)
SumOver(S, f) ==
    IF S = {} THEN 0
    ELSE LET x == CHOOSE x \in S : TRUE
         IN  f[x] + SumOver(S \ {x}, f)

TokensOf(gs, name) ==
    SumOver(SeatsNamed(gs, name),
            [seat \in SeatsNamed(gs, name) |->
                LET t == gs[seat[1]].players[seat[2]].tokens
                IN  t[0] + t[1] + t[2] + t[3] + t[WILD]])

PointsOf(gs, name) ==
    SumOver(SeatsNamed(gs, name),
            [seat \in SeatsNamed(gs, name) |-> gs[seat[1]].players[seat[2]].score])

(***************************************************************************)
(* C16  Scoreboard aggregation: a scores request writes the header and     *)
(* then exactly one line for each distinct player name, with the sums of   *)
(* that name's tokens and points over every game the name appears in,      *)
(* the lines ordered by points descending and, for equal points, by        *)
(* tokens ascending.                                                       *)
(***************************************************************************)
C16_Scoreboard ==
    probe.pc = "returned" /\ "lines" \in DOMAIN probe =>
        LET gs == probe.games
            table == Tail(probe.lines)
            rows == 1 .. Len(table)
        IN  /\ Head(probe.lines) = ScoresHeader
            /\ \A a, b \in rows : a # b => table[a].name # table[b].name
            /\ { table[a].name : a \in rows }
                  = { name \in ScoreNames : SeatsNamed(gs, name) # {} }
            /\ \A a \in rows :
                  /\ table[a].tokens = TokensOf(gs, table[a].name)
                  /\ table[a].points = PointsOf(gs, table[a].name)
            /\ \A a, b \in rows :
                  a < b => \/ table[a].points > table[b].points
                           \/ /\ table[a].points = table[b].points
                              /\ table[a].tokens <= table[b].tokens

\* three names were listed, the first two with equal points and different
\* tokens, one of them playing in both games
C16_Witness ==
    /\ probe.pc = "returned"
    /\ "lines" \in DOMAIN probe
    /\ Len(probe.lines) = 4
    /\ probe.lines[2].points = probe.lines[3].points
    /\ probe.lines[2].tokens < probe.lines[3].tokens
    /\ \E name \in ScoreNames : Cardinality(SeatsNamed(probe.games, name)) = 2

\* the lines of h's opening written to player p
OpeningOf(h, p) ==
    LET mine(w) == w.slot = p
    IN  SelectSeq(h.opening, mine)

\* the rid lines of h written to player p
RidsOf(h, p) ==
    LET mine(w) == w.slot = p
    IN  SelectSeq(h.rids, mine)

(***************************************************************************)
(* C17  Game start-up order: in every started game each player is sent     *)
(* exactly one rid with the game's name, its counter and the player's id,  *)
(* then playinfo with the player's letter and the player count, then       *)
(* tokens with the initial pile size, all three before any newcard or      *)
(* dowhat; no rid is sent again, a reconnect included.                     *)
(***************************************************************************)
C17_StartupOrder ==
    \A g \in GameIds :
        LET G == games[g]
        IN  /\ driver[g].pc = "start"
               => hist[g].opening = <<>> /\ hist[g].rids = <<>>
            /\ driver[g].pc # "start"
               => \A p \in PlayerIds(G) :
                     /\ Len(OpeningOf(hist[g], p)) = 3
                     /\ OpeningOf(hist[g], p)[1].msg
                           = [type |-> "rid", name |-> G.name,
                              counter |-> G.counter, id |-> p]
                     /\ OpeningOf(hist[g], p)[2].msg
                           = [type |-> "playinfo", letter |-> p,
                              count |-> G.playerCount]
                     /\ OpeningOf(hist[g], p)[3].msg
                           = [type |-> "tokens", count |-> G.initialTokens]
                     /\ Len(RidsOf(hist[g], p)) = 1
            /\ \A p \in PlayerIds(G) :
                  LET lines == (reconnect_header(G, p) \o catchup_cards(G))
                               \o catchup_players(G)
                  IN  \A k \in 1 .. Len(lines) : lines[k].type # "rid"

\* a started game with cards on its board has taken a reconnect and then
\* written a dowhat
C17_Witness ==
    \E g \in GameIds :
        /\ driver[g].pc = "read"
        /\ hist[g].accepted # {}
        /\ Len(games[g].board) > 0
        /\ Len(hist[g].rids) = games[g].playerCount

\* the place at which the client of slot p of game g joined its lobby
JoinedAt(g, p) ==
    LET L == lobbies[hist[g].lobby]
    IN  CHOOSE k \in 1 .. Len(L.players) : L.players[k].conn = games[g].players[p].conn

\* game g seats exactly the members of its lobby, by name and then by the
\* order of joining, and numbers them by seat
SeatedInOrder(g) ==
    LET G == games[g]
        L == lobbies[hist[g].lobby]
    IN  /\ G.playerCount = Len(L.players)
        /\ \A k \in 1 .. Len(L.players) :
              \E p \in PlayerIds(G) :
                 /\ G.players[p].conn = L.players[k].conn
                 /\ G.players[p].name = L.players[k].name
        /\ \A p \in PlayerIds(G) : G.players[p].playerId = p
        /\ \A p, q \in PlayerIds(G) :
              p < q => \/ G.players[p].name < G.players[q].name
                       \/ /\ G.players[p].name = G.players[q].name
                          /\ JoinedAt(g, p) < JoinedAt(g, q)

\* the names and ids of G's seats
Seating(G) == [p \in PlayerIds(G) |-> <<G.players[p].name, G.players[p].playerId>>]

(***************************************************************************)
(* C18  Player ordering: a game seats the players of its lobby by name     *)
(* ascending and, for equal names, by order of joining; the player at seat *)
(* k has id k (and so letter 'A' + k); the seating never changes.          *)
(***************************************************************************)
C18_PlayerOrdering ==
    /\ [](\A g \in GameIds : SeatedInOrder(g))
    /\ [][\A g \in GameIds : Seating(games'[g]) = Seating(games[g])]_vars

\* a game is under way whose first seat went to the client that joined last
C18_Witness ==
    \E g \in GameIds :
        /\ driver[g].pc # "start"
        /\ Len(games[g].board) > 0
        /\ JoinedAt(g, 0) = games[g].playerCount

(***************************************************************************)
(* C19  Game identity: a game's counter is one more than the number of     *)
(* games of its name, finished or running, that the server held when it    *)
(* was made, and no two games share name and counter.                      *)
(***************************************************************************)
C19_GameIdentity ==
    /\ \A g \in GameIds :
          games[g].counter
             = 1 + Cardinality({ h \in GameIds : h < g /\ games[h].name = games[g].name })
    /\ \A g, h \in GameIds :
          g # h => <<games[g].name, games[g].counter>> # <<games[h].name, games[h].counter>>

\* a lobby has closed into a second game of a name whose first game finished
C19_Witness ==
    \E g, h \in GameIds :
        /\ g < h
        /\ games[g].name = games[h].name
        /\ games[g].finished
        /\ hist[h].lobby # hist[g].lobby
        /\ games[h].counter = 2

\* text holds no newline
NoNewline(text) == \A i \in 1 .. Len(text) : text[i] # NL

\* text is one line of at least one character, ended by the end of the file
OneLineBare(text) == Len(text) > 0 /\ NoNewline(text)

\* text is one line of at least one character, ended by one last newline
OneLineEnded(text) ==
    /\ Len(text) > 1
    /\ text[Len(text)] = NL
    /\ NoNewline(SubSeq(text, 1, Len(text) - 1))

\* text holds more than one line: a newline with characters after it
ManyLines(text) == \E i \in 1 .. (Len(text) - 1) : text[i] = NL

(***************************************************************************)
(* C20  Keyfile format, as claimed: a keyfile of exactly one non-empty     *)
(* line is accepted both without and with one final newline; a file of no  *)
(* characters or of more than one line is rejected.                        *)
(***************************************************************************)
C20_KeyfileFormat ==
    probe.pc = "returned"
    => /\ OneLineBare(probe.text) \/ OneLineEnded(probe.text) => probe.result.valid
       /\ probe.text = <<>> \/ ManyLines(probe.text) => ~probe.result.valid

(***************************************************************************)
(* C20  Keyfile format, amended: a keyfile is accepted exactly when it     *)
(* holds at least one character and no newline, and the key is then the    *)
(* whole file; a file whose single line ends with a newline is rejected,   *)
(* as are a file of no characters and a file of more than one line.        *)
(***************************************************************************)
C20_KeyfileNoNewline ==
    probe.pc = "returned"
    => /\ probe.result.valid <=> OneLineBare(probe.text)
       /\ probe.result.valid => probe.result.key = probe.text
       /\ OneLineEnded(probe.text) => ~probe.result.valid

\* get_keyfile has turned down a one-line keyfile that ends with a newline
C20_Witness ==
    /\ probe.pc = "returned"
    /\ OneLineEnded(probe.text)
    /\ ~probe.result.valid

\* input is a line that handle_input accepts as a take or a purchase when it
\* ends at place k, followed by characters that do not lengthen its last number
TrailsValidMove(g, input) ==
    \E k \in 1 .. (Len(input) - 1) :
        /\ read_input(SubSeq(input, 1, k)).type \in {"take", "purchase"}
        /\ handle_line(g, 0, SubSeq(input, 1, k)).ok
        /\ ~IsDigit(input[k + 1])

(***************************************************************************)
(* C21  Strict message shape: a line that is a valid take or purchase      *)
(* followed by more characters is turned down by handle_input and changes  *)
(* nothing of the game.                                                    *)
(***************************************************************************)
C21_StrictShape ==
    probe.pc = "returned" /\ TrailsValidMove(probe.game, probe.input)
    => ~probe.result.ok /\ probe.result.game = probe.game

(***************************************************************************)
(* C22  Strike reset on reconnect: when a player has written an invalid    *)
(* message, then closed its stream, then reconnected in time, and now      *)
(* writes another invalid message in the same turn, the driver sends       *)
(* dowhat again and does not stop the game.                                *)
(***************************************************************************)
C22_StrikeReset ==
    [][\A g \in GameIds :
          (/\ driver[g].pc = "read"
           /\ driver[g].prevReply = "invalid"
           /\ driver[g].lastReply = "eof"
           /\ driver'[g].prevReply = "eof"
           /\ driver'[g].lastReply = "invalid")
          => /\ driver'[g].pc = "turn"
             /\ ~driver'[g].gameStopped]_vars

(***************************************************************************)
(* C23  Reconnect window: a reconnect handler answers yes and replaces the *)
(* streams of slot p only while the game's driver, having read the end of  *)
(* p's stream, is waiting for p to reconnect; so never before p's first    *)
(* disconnect and never once p is connected again.                         *)
(***************************************************************************)
C23_ReconnectWindow ==
    [][\A c \in DOMAIN conns :
          (conns[c].pc = "swap" /\ conns'[c].pc = "in_game")
          => LET D == driver[conns[c].game]
             IN  /\ D.pc \in {"wait_lock", "waiting"}
                 /\ D.player = conns[c].pid
                 /\ D.lastReply = "eof"]_vars

(***************************************************************************)
(* C24  Exactly one terminal message: however a game's own end and the     *)
(* SIGTERM shutdown interleave, its players are sent one closing message   *)
(* (eog, disco or invalid), once, by the thread that marks the game        *)
(* finished, and that thread alone closes the sockets; a driver whose wait *)
(* for a reconnect ends because SIGTERM finished the game sends nothing.   *)
(***************************************************************************)
C24_OneTerminal ==
    \A g \in GameIds :
        LET T == hist[g].term
            D == driver[g]
        IN  /\ Len(T) <= 1
            /\ games[g].finished <=> Len(T) = 1
            /\ D.pc = "done" => games[g].finished
            /\ Len(T) = 1
               => /\ T[1].kind \in {"eog", "disco", "invalid"}
                  /\ T[1].to = Handles(games[g])
                  /\ \A c \in T[1].to : conns[c].closes = 1
                  /\ T[1].by = "main" => T[1].kind = "eog"
            /\ Len(T) = 0 => \A c \in Handles(games[g]) : conns[c].closes = 0

\* SIGTERM has ended a game whose driver was inside its wait for a reconnect,
\* and the driver has come back from the wait and finished
C24_Witness ==
    \E g \in GameIds :
        /\ driver[g].pc = "done"
        /\ driver[g].lastReply = "eof"
        /\ driver[g].waitStatus = "OK"
        /\ driver[g].err = "PLAYER_CLOSED"
        /\ Len(hist[g].term) = 1
        /\ hist[g].term[1].by = "main"

\* the messages among lines that went to player q, in order
LinesTo(lines, q) ==
    LET mine(w) == w.to = q
        kept == SelectSeq(lines, mine)
    IN  [k \in 1 .. Len(kept) |-> kept[k].msg]

\* the hub takes a step of run_game_loop's inner while that reads a message
HubReads == hub.pc = "loop" /\ hub'.result # "PLAYER_DISCONNECT"

(***************************************************************************)
(* C25  Serialized broadcasts: from one dowhat to the next the hub writes, *)
(* for an accepted move, the took, wild or purchased line to every player  *)
(* in turn and then, after a purchase with a card left in the deck, the    *)
(* newcard line to every player in turn; a rejected move writes nothing.   *)
(* Every player is written the same lines in the same order.               *)
(***************************************************************************)
C25_SerializedBroadcasts ==
    [][HubReads =>
          LET n == hub.numPlayers
              rest == Tail(hubLast'.sent)
              mine == LinesTo(rest, 0)
          IN  /\ Head(hubLast'.sent) = [to |-> hub.curPlayer, msg |-> [type |-> "dowhat"]]
              /\ \A k \in 1 .. Len(rest) : rest[k].msg.type # "dowhat"
              /\ ~hubLast'.ok => rest = <<>>
              /\ hubLast'.ok
                 => /\ Len(mine) = IF hubLast'.type = "purchase" /\ hub.deck # <<>>
                                   THEN 2 ELSE 1
                    /\ Len(rest) = n * Len(mine)
                    /\ \A k \in 1 .. Len(rest) :
                          rest[k] = [to |-> (k - 1) % n,
                                     msg |-> mine[((k - 1) \div n) + 1]]
                    /\ \A q \in 0 .. (n - 1) : LinesTo(rest, q) = mine
                    /\ mine[1].type = CASE hubLast'.type = "wild" -> "wild"
                                        [] hubLast'.type = "take" -> "took"
                                        [] OTHER -> "purchased"
                    /\ mine[1].player = hub.curPlayer
                    /\ Len(mine) = 2
                       => mine[2] = [type |-> "newcard", card |-> Head(hub.deck)]]_vars

\* a purchase has been followed by a newcard to the last player, and the game
\* goes on to the next dowhat
C25_Witness ==
    /\ hub.pc = "loop"
    /\ hubLast.type = "purchase"
    /\ hubLast.ok
    /\ Len(hubLast.sent) = 1 + 2 * hub.numPlayers
    /\ hubLast.sent[Len(hubLast.sent)].to = hub.numPlayers - 1
    /\ hubLast.sent[Len(hubLast.sent)].msg.type = "newcard"

(***************************************************************************)
(* C26  Turn order: the first dowhat of a game goes to player 0; a dowhat  *)
(* goes to the next player in cyclic order only when the last reply was an *)
(* accepted move, and otherwise to the same player again; the reply is     *)
(* read from the streams of the player just prompted, and nobody is        *)
(* prompted while a reply is awaited.                                      *)
(***************************************************************************)
C26_TurnOrder ==
    [][\A g \in GameIds :
          LET D == driver[g]
              n == games[g].playerCount
          IN  /\ (D.pc = "turn" /\ driver'[g].pc = "read")
                 => /\ driver'[g].player = D.player
                    /\ D.player = CASE D.lastReply = "none" -> 0
                                    [] D.lastReply = "valid" -> (D.who + 1) % n
                                    [] OTHER -> D.who
                    /\ driver'[g].handle = games[g].players[D.player].conn
              /\ (D.pc = "read" /\ driver'[g].pc # "read")
                 => /\ driver'[g].who = D.player
                    /\ driver'[g].handle = D.handle
              /\ driver'[g].pc = "read" => D.pc \in {"turn", "read"}]_vars

\* the second player's move was accepted and the first player is prompted again
C26_Witness ==
    \E g \in GameIds :
        /\ driver[g].pc = "read"
        /\ driver[g].player = 0
        /\ driver[g].lastReply = "valid"
        /\ driver[g].who = games[g].playerCount - 1

(***************************************************************************)
(* C27  A rejected move has no effect: when handle_input turns a message   *)
(* down, the board, the deck, the token piles and every player's tokens,   *)
(* discounts and score stay as they were and nothing is written to any     *)
(* player; after the first such message of a turn the same player is the   *)
(* next to be sent dowhat.                                                 *)
(***************************************************************************)
C27_RejectedNoEffect ==
    [][(HubReads /\ ~hubLast'.ok)
          => /\ hub'.tokens = hub.tokens
             /\ hub'.cards = hub.cards
             /\ hub'.deck = hub.deck
             /\ hub'.players = hub.players
             /\ Tail(hubLast'.sent) = <<>>
             /\ ~hub.alreadyAttempted
                => /\ hub'.pc = "loop"
                   /\ hub'.curPlayer = hub.curPlayer
                   /\ hub'.alreadyAttempted]_vars

\* the second player holds tokens and has had a first purchase turned down
C27_Witness ==
    /\ hub.pc = "loop"
    /\ hub.curPlayer = 1
    /\ hub.alreadyAttempted
    /\ hubLast.type = "purchase"
    /\ ~hubLast.ok
    /\ hubLast.sent = send_dowhat(1)
    /\ \E c \in Colours : hub.players[1].tokens[c] > 0

\* the tokens of slot s the first n players hold
RECURSIVE HeldBy(_, _, _)
HeldBy(players, n, s) ==
    IF n = 0 THEN 0 ELSE players[n - 1].tokens[s] + HeldBy(players, n - 1, s)

\* the tokens of colour c on the board's pile and in the players' hands
InPlay(h, c) == h.tokens[c] + HeldBy(h.players, h.numPlayers, c)

\* the step is an accepted purchase
HubBuys == HubReads /\ hubLast'.ok /\ hubLast'.type = "purchase"

(***************************************************************************)
(* C28  Token conservation: before and after every step of the hub, for    *)
(* each colour but wild, the board's pile and the players' tokens of that  *)
(* colour add up to the initialTokens the hub was started with.            *)
(* A purchase takes the tokens it names from the buyer, adds those of each *)
(* colour to that colour's pile and adds the wilds to nothing.             *)
(***************************************************************************)
C28_TokenConservation ==
    [][/\ \A c \in Colours :
             /\ InPlay(hub, c) = HubInitialTokens
             /\ InPlay(hub', c) = HubInitialTokens
       /\ HubBuys
          => LET spent == hubLast'.sent[2].msg.tokens
                 p == hub.curPlayer
             IN  /\ \A s \in Slots :
                       hub'.players[p].tokens[s] = hub.players[p].tokens[s] - spent[s]
                 /\ \A c \in Colours : hub'.tokens[c] = hub.tokens[c] + spent[c]
                 /\ \A q \in 0 .. (hub.numPlayers - 1) :
                       q # p => hub'.players[q].tokens = hub.players[q].tokens
                 /\ HeldBy(hub'.players, hub.numPlayers, WILD)
                       = HeldBy(hub.players, hub.numPlayers, WILD) - spent[WILD]]_vars

\* a purchase paid with a wild and a coloured token has just been accepted
\* while another colour is still in a player's hand
C28_Witness ==
    /\ hubLast.type = "purchase"
    /\ hubLast.ok
    /\ hubLast.wilds > 0
    /\ \E c \in Colours : hubLast.sent[2].msg.tokens[c] > 0
    /\ \E c \in Colours : HeldBy(hub.players, hub.numPlayers, c) > 0

\* how many of the cards have discount colour c
RECURSIVE CardsOf(_, _)
CardsOf(cards, c) ==
    IF cards = <<>> THEN 0
    ELSE (IF Head(cards).discount = c THEN 1 ELSE 0) + CardsOf(Tail(cards), c)

\* the values of the cards added up
RECURSIVE ValueOf(_)
ValueOf(cards) == IF cards = <<>> THEN 0 ELSE Head(cards).value + ValueOf(Tail(cards))

\* the discounts of colour c of the first n players added up
RECURSIVE DiscountsOf(_, _, _)
DiscountsOf(players, n, c) ==
    IF n = 0 THEN 0 ELSE players[n - 1].discounts[c] + DiscountsOf(players, n - 1, c)

\* the scores of the first n players added up
RECURSIVE ScoresOf(_, _)
ScoresOf(players, n) ==
    IF n = 0 THEN 0 ELSE players[n - 1].totalPoints + ScoresOf(players, n - 1)

\* no pile and no player's count is negative, and the players' discounts and
\* scores are those of the cards that have left the deck and the board
PlayersSound(h) ==
    /\ \A c \in Colours : h.tokens[c] >= 0
    /\ \A p \in 0 .. (h.numPlayers - 1) :
          /\ \A s \in Slots : h.players[p].tokens[s] >= 0
          /\ \A c \in Colours : h.players[p].discounts[c] >= 0
    /\ \A c \in Colours :
          DiscountsOf(h.players, h.numPlayers, c)
             = CardsOf(BoardDeck, c) - CardsOf(h.cards, c) - CardsOf(h.deck, c)
    /\ ScoresOf(h.players, h.numPlayers)
          = ValueOf(BoardDeck) - ValueOf(h.cards) - ValueOf(h.deck)

(***************************************************************************)
(* C29  Player-state invariants: no token count of a player and no pile of *)
(* the board is ever negative; a purchase adds one to the buyer's discount *)
(* of the card's colour and the card's value to the buyer's score, and no  *)
(* other step changes a discount or a score, so that the discounts count   *)
(* the purchased cards by colour and the scores add up their values.       *)
(***************************************************************************)
C29_PlayerState ==
    [][/\ PlayersSound(hub)
       /\ PlayersSound(hub')
       /\ \A q \in 0 .. (hub.numPlayers - 1), c \in Colours :
             LET bought == IF HubBuys /\ q = hub.curPlayer
                           THEN << hub.cards[hubLast'.sent[2].msg.cardId + 1] >>
                           ELSE <<>>
             IN  /\ hub'.players[q].discounts[c]
                       = hub.players[q].discounts[c] + CardsOf(bought, c)
                 /\ hub'.players[q].totalPoints
                       = hub.players[q].totalPoints + ValueOf(bought)]_vars

\* one player has bought a card of each of two colours and scored with one
C29_Witness ==
    \E p \in 0 .. (hub.numPlayers - 1) :
        /\ hub.players[p].discounts[0] >= 1
        /\ hub.players[p].discounts[1] >= 1
        /\ hub.players[p].totalPoints = 1

\* the cards of a are cards of b in the order b has them
RECURSIVE InOrderOf(_, _)
InOrderOf(a, b) ==
    IF a = <<>> THEN TRUE
    ELSE IF b = <<>> THEN FALSE
    ELSE IF Head(a) = Head(b) /\ InOrderOf(Tail(a), Tail(b)) THEN TRUE
    ELSE InOrderOf(a, Tail(b))

\* the board holds at most eight cards, the deck is the end of the deck the
\* hub loaded, and board then deck are cards of that deck in its order
BoardSound(h) ==
    /\ Len(h.cards) <= MAX_CARDS_ON_BOARD
    /\ Len(h.deck) <= Len(BoardDeck)
    /\ h.deck = SubSeq(BoardDeck, Len(BoardDeck) - Len(h.deck) + 1, Len(BoardDeck))
    /\ InOrderOf(h.cards \o h.deck, BoardDeck)

(***************************************************************************)
(* C30  Board discipline: the board never holds more than eight cards; a   *)
(* purchase of the card at index i takes exactly that card out, leaves the *)
(* others in their order with the later ones one place down, and puts the  *)
(* top card of the deck at the end when the deck has one; no other step    *)
(* changes board or deck, so cards come onto the board in deck order and   *)
(* the deck only shrinks.                                                  *)
(***************************************************************************)
C30_BoardDiscipline ==
    [][/\ BoardSound(hub)
       /\ BoardSound(hub')
       /\ IF HubBuys
          THEN LET i == hubLast'.sent[2].msg.cardId
                   left == SubSeq(hub.cards, 1, i)
                          \o SubSeq(hub.cards, i + 2, Len(hub.cards))
               IN  IF hub.deck = <<>>
                   THEN hub'.cards = left /\ hub'.deck = <<>>
                   ELSE /\ hub'.cards = Append(left, Head(hub.deck))
                        /\ hub'.deck = Tail(hub.deck)
          ELSE hub'.cards = hub.cards /\ hub'.deck = hub.deck]_vars

\* a card that is not the last on the board was bought and the last card of
\* the deck has filled the board again
C30_Witness ==
    /\ hubLast.type = "purchase"
    /\ hubLast.ok
    /\ hubLast.sent[2].msg.cardId < MAX_CARDS_ON_BOARD - 1
    /\ Len(hub.cards) = MAX_CARDS_ON_BOARD
    /\ hub.deck = <<>>
    /\ hub.cards[MAX_CARDS_ON_BOARD] = BoardDeck[Len(BoardDeck)]

\* the connections that have been a transport of a player of game g: those
\* the game started with and those a reconnect was answered yes on
TransportsOf(g) ==
    { c \in DOMAIN conns : conns[c].pc = "in_game" /\ conns[c].game = g }

(***************************************************************************)
(* C31  Single-owner sockets: no connection's streams are closed twice,    *)
(* and once a game's thread has ended every connection that was a          *)
(* transport of one of its players, a replaced one included, has been      *)
(* closed exactly once.                                                    *)
(***************************************************************************)
C31_SingleOwner ==
    /\ \A c \in DOMAIN conns : conns[c].closes <= 1
    /\ \A g \in GameIds :
          driver[g].pc = "done" => \A c \in TransportsOf(g) : conns[c].closes = 1

(***************************************************************************)
(* C32  Scoreboard under concurrency: a call of print_scores that finds no *)
(* game writes the header alone; a call that has returned has written the  *)
(* header and one line for each name it met; and the entries it has        *)
(* written to its scores array are never more than totalPlayers, the       *)
(* length it gave the array, also when a game is added during the call.    *)
(***************************************************************************)
C32_Scoreboard ==
    /\ probe.pc \in {"fill", "returned"} => Len(probe.scores) <= probe.totalPlayers
    /\ probe.pc = "returned"
       => /\ Head(probe.lines) = ScoresHeader
          /\ Len(probe.lines) = 1 + Len(probe.scores)
          /\ \A j, k \in 1 .. Len(probe.scores) :
                j # k => probe.scores[j].name # probe.scores[k].name

C34_SameRecord ==
    probe.pc = "heap" => \A g \in GameIds : probe.own[g] = games[g]

(***************************************************************************)
(* C35  One reconnect per disconnect: a connection that was answered yes   *)
(* to its rid and is still open is the transport of its slot, so of two    *)
(* connections that present the same rid for a disconnected slot at most   *)
(* one is answered yes and none believes it has joined while the driver    *)
(* uses the other.                                                         *)
(***************************************************************************)
C35_OneReconnect ==
    \A g \in GameIds : \A c \in hist[g].accepted :
        (conns[c].pc = "in_game" /\ ~conns[c].peerClosed /\ conns[c].closes = 0)
            => games[g].players[conns[c].pid].conn = c

(***************************************************************************)
(* C36  Finished is final: once a game's closing message is written and    *)
(* its sockets are closed, by its driver or by the main thread on SIGTERM, *)
(* the driver writes no further dowhat to the game's players (each dowhat  *)
(* is followed by a read of that player's stream).                         *)
(***************************************************************************)
C36_FinishedFinal ==
    \A g \in GameIds :
        games[g].finished => ~hist[g].late

(***************************************************************************)
(* ass3/player.c: a player process beside the hub.  The hub's lines to the *)
(* player wait in inbox, the pipe to its stdin, as the characters          *)
(* send_message_all's format strings write; the player's run_game_loop     *)
(* reads them one by one and handle_input applies them to the player's own *)
(* Game struct (probe.game: tokens, cards, players, numPlayers).           *)
(***************************************************************************)
\* lines the pipe holds when the hub asks for the next move
MaxPending == 1

MSG_TOKENS == <<"t", "o", "k", "e", "n", "s">>
MSG_NEWCARD == <<"n", "e", "w", "c", "a", "r", "d">>
MSG_PURCHASED == <<"p", "u", "r", "c", "h", "a", "s", "e", "d">>
MSG_TOOK == <<"t", "o", "o", "k">>
MSG_EOG == <<"e", "o", "g">>
MSG_DOWHAT == <<"d", "o", "w", "h", "a", "t">>

PlayerLetters ==
    << "A", "B", "C", "D", "E", "F", "G", "H", "I", "J", "K", "L", "M",
       "N", "O", "P", "Q", "R", "S", "T", "U", "V", "W", "X", "Y", "Z" >>

\* lib/util.c
player_int_to_char(playerId) == PlayerLetters[playerId + 1]

player_char_to_int(playerLetter) ==
    (CHOOSE i \in 1 .. Len(PlayerLetters) : PlayerLetters[i] = playerLetter) - 1

is_valid_player_char(playerLetter, numPlayers) ==
    \E i \in 1 .. Len(PlayerLetters) : i <= numPlayers /\ PlayerLetters[i] = playerLetter

\* lib/game.c: the colours in the order of the enum
CardChars == <<"P", "B", "Y", "R">>
INVALID_COLOUR == 4

get_card_char(colour) ==
    IF colour \in Colours THEN CardChars[colour + 1] ELSE "?"

get_card_colour(input) ==
    IF \E i \in 1 .. Len(CardChars) : CardChars[i] = input
    THEN (CHOOSE i \in 1 .. Len(CardChars) : CardChars[i] = input) - 1
    ELSE INVALID_COLOUR

\* printf's %d
print_int(n) == IF n < 0 THEN <<"-">> \o DecimalText(0 - n) ELSE DecimalText(n)

\* %d,%d,...: the numbers of ns parted by commas
RECURSIVE print_ints(_)
print_ints(ns) ==
    IF Len(ns) = 1 THEN print_int(Head(ns))
    ELSE print_int(Head(ns)) \o <<",">> \o print_ints(Tail(ns))

\* the characters hub.c writes for a message, without the newline
hub_line(msg) ==
    CASE msg.type = "tokens" -> MSG_TOKENS \o print_int(msg.tokens)
      [] msg.type = "newcard" ->
            MSG_NEWCARD \o <<get_card_char(msg.card.discount), ":">>
            \o print_int(msg.card.value) \o <<":">>
            \o print_ints([k \in 1 .. NUM_COLOURS |-> msg.card.price[k - 1]])
      [] msg.type = "wild" -> MSG_WILD_TAKE \o <<player_int_to_char(msg.player)>>
      [] msg.type = "took" ->
            MSG_TOOK \o <<player_int_to_char(msg.player), ":">>
            \o print_ints([k \in 1 .. NUM_COLOURS |-> msg.tokens[k - 1]])
      [] msg.type = "purchased" ->
            MSG_PURCHASED \o <<player_int_to_char(msg.player), ":">>
            \o print_int(msg.cardId) \o <<":">>
            \o print_ints([k \in 1 .. TOKEN_SLOTS |-> msg.tokens[k - 1]])
      [] msg.type = "eog" -> MSG_EOG
      [] OTHER -> MSG_DOWHAT

\* the lines of sends that go to playerId, as characters
RECURSIVE lines_to(_, _)
lines_to(playerId, sends) ==
    IF sends = <<>> THEN <<>>
    ELSE (IF Head(sends).to = playerId THEN <<hub_line(Head(sends).msg)>> ELSE <<>>)
         \o lines_to(playerId, Tail(sends))

\* what start_new_game writes: tokens, and a newcard for each card it draws
RECURSIVE start_lines(_, _)
start_lines(g, n) ==
    IF n = 0 THEN <<>>
    ELSE newcard_lines(g) \o start_lines(take_card_from_deck(g), n - 1)

\* lib/util.c str_to_int within the range of int: strtol and the test that
\* nothing follows the number
str_to_int(str) ==
    LET a == scan_int(str)
    IN  IF a.ok THEN [ok |-> a.rest = <<>>, value |-> a.value]
        ELSE [ok |-> str = <<>>, value |-> 0]

\* sscanf with a format of %c, a colon, and %d's parted by seps: the number
\* of conversions, the character and the numbers
scan_char_ints(data, seps) ==
    IF data = <<>> THEN [n |-> 0, ch |-> "", ints |-> <<>>]
    ELSE IF Len(data) = 1 \/ data[2] # ":"
    THEN [n |-> 1, ch |-> Head(data), ints |-> <<>>]
    ELSE LET v == scan_ints(after(data, 2), seps)
         IN  [n |-> 1 + Len(v), ch |-> Head(data), ints |-> v]

\* lib/game.c create_card
create_card(input) ==
    LET r == scan_char_ints(input, <<":", ",", ",", ",">>)
    IN  IF r.n # 2 + NUM_COLOURS \/ get_card_colour(r.ch) = INVALID_COLOUR
        THEN [ok |-> FALSE, card |-> Card(0, 0, Zero4)]
        ELSE [ok |-> TRUE,
              card |-> Card(get_card_colour(r.ch), r.ints[1],
                            [c \in Colours |-> r.ints[c + 2]])]

Rejected(g) == [result |-> "COMMUNICATION_ERROR", game |-> g]
Applied(g) == [result |-> "NORMAL", game |-> g]

\* player.c handle_newcard
handle_newcard(g, data) ==
    LET c == create_card(data)
    IN  IF ~c.ok \/ Len(g.cards) = MAX_CARDS_ON_BOARD THEN Rejected(g)
        ELSE Applied(add_card_to_board(g, c.card))

\* player.c handle_card_purchased
handle_card_purchased(g, data) ==
    LET r == scan_char_ints(data, <<":", ",", ",", ",", ",">>)
    IN  IF \/ r.n # 2 + TOKEN_SLOTS
           \/ r.ints[1] < 0
           \/ r.ints[1] >= Len(g.cards)
           \/ has_any_whitespace(data)
           \/ ~is_valid_player_char(r.ch, g.numPlayers)
        THEN Rejected(g)
        ELSE Applied(player_purchased_card(g, player_char_to_int(r.ch), r.ints[1],
                                           [k \in Slots |-> r.ints[k + 2]]))

\* handle_wild_take crediting the wild to the first player
handle_wild_take_first(g, data) ==
    IF Len(data) # 1 \/ ~is_valid_player_char(data[1], g.numPlayers) THEN Rejected(g)
    ELSE Applied(player_took_wild(g, 0))

\* player.c handle_wild_take
handle_wild_take(g, data) ==
    IF Len(data) # 1 \/ ~is_valid_player_char(data[1], g.numPlayers) THEN Rejected(g)
    ELSE Applied(player_took_wild(g, player_char_to_int(data[1])))

\* player.c handle_token_take
handle_token_take(g, data) ==
    LET r == scan_char_ints(data, <<",", ",", ",">>)
    IN  IF \/ has_any_whitespace(data)
           \/ r.n # 1 + NUM_COLOURS
           \/ ~is_valid_player_char(r.ch, g.numPlayers)
        THEN Rejected(g)
        ELSE Applied(player_took_tokens(g, player_char_to_int(r.ch),
                                        [c \in Colours |-> r.ints[c + 1]]))

\* player.c handle_initial_tokens
handle_initial_tokens(g, data) ==
    LET n == str_to_int(data)
    IN  IF has_any_whitespace(data) \/ ~n.ok \/ n.value < 0 THEN Rejected(g)
        ELSE Applied([g EXCEPT !.tokens = [c \in Colours |-> n.value]])

\* player.c handle_input: [result, game]
player_handle_input(g, input) ==
    IF starts_with(input, MSG_TOKENS)
    THEN handle_initial_tokens(g, after(input, Len(MSG_TOKENS)))
    ELSE IF starts_with(input, MSG_NEWCARD)
    THEN handle_newcard(g, after(input, Len(MSG_NEWCARD)))
    ELSE IF starts_with(input, MSG_PURCHASED)
    THEN handle_card_purchased(g, after(input, Len(MSG_PURCHASED)))
    ELSE IF starts_with(input, MSG_TOOK)
    THEN handle_token_take(g, after(input, Len(MSG_TOOK)))
    ELSE IF starts_with(input, MSG_WILD_TAKE)
    THEN handle_wild_take(g, after(input, Len(MSG_WILD_TAKE)))
    ELSE IF input = MSG_EOG THEN [result |-> "END_OF_GAME", game |-> g]
    ELSE IF input = MSG_DOWHAT THEN Applied(g)
    ELSE Rejected(g)

\* the hub before start_new_game, and a player process after setup_game: its
\* piles are whatever malloc left there
ReplicaInit ==
    /\ ServerOff
    /\ hubLast = [type |-> "none", ok |-> FALSE, wilds |-> 0, sent |-> <<>>]
    /\ \E myId \in 0 .. (HubPlayers - 1), junk \in {0, HubInitialTokens + 1} :
          LET g0 == [tokens |-> Zero4, cards |-> <<>>, deck |-> BoardDeck,
                     players |-> [p \in 0 .. (HubPlayers - 1) |-> NewPlayer],
                     numPlayers |-> HubPlayers, maxPoints |-> 0]
              g == start_new_game(g0, HubInitialTokens, 1)
          IN  /\ hub = [tokens |-> g.tokens, cards |-> g.cards, deck |-> g.deck,
                        players |-> g.players, numPlayers |-> g.numPlayers,
                        maxPoints |-> g.maxPoints,
                        pc |-> "loop", curPlayer |-> 0, alreadyAttempted |-> FALSE,
                        maxPointsReached |-> FALSE, result |-> "NONE"]
              /\ probe = [pc |-> "replica", myId |-> myId, result |-> "NORMAL",
                          game |-> [tokens |-> [c \in Colours |-> junk],
                                    cards |-> <<>>, players |-> g0.players,
                                    numPlayers |-> HubPlayers],
                          inbox |-> lines_to(myId,
                              send_message_all(g0, [type |-> "tokens",
                                                    tokens |-> HubInitialTokens])
                              \o start_lines(g0, MAX_CARDS_ON_BOARD))]

\* the hub's pass of run_game_loop; its lines to the player enter the pipe
ReplicaTurn ==
    /\ probe.pc = "replica"
    /\ hub.pc = "loop"
    /\ Len(probe.inbox) <= MaxPending
    /\ \E m \in BoardMsgs(HubGame, hub.curPlayer) :
          /\ hub_step(m)
          /\ probe' = [probe EXCEPT
                          !.inbox = @ \o lines_to(probe.myId, hubLast'.sent)]

\* exit_game: kill_players writes eog to every player
ReplicaExit ==
    /\ probe.pc = "replica"
    /\ hub.pc = "exit"
    /\ hub' = [hub EXCEPT !.pc = "done"]
    /\ probe' = [probe EXCEPT !.inbox = Append(@, hub_line([type |-> "eog"]))]
    /\ UNCHANGED hubLast
    /\ UNCHANGED srvVars

\* one pass of the player's run_game_loop: get_input and handle_input
ReplicaRead ==
    /\ probe.pc = "replica"
    /\ probe.result = "NORMAL"
    /\ probe.inbox # <<>>
    /\ \E r \in {player_handle_input(probe.game, Head(probe.inbox))} :
          probe' = [probe EXCEPT !.game = r.game, !.result = r.result,
                                 !.inbox = Tail(@)]
    /\ UNCHANGED <<hubVars, srvVars>>

ReplicaNext ==
    \/ ReplicaTurn
    \/ ReplicaExit
    \/ ReplicaRead

SpecReplica == ReplicaInit /\ [][ReplicaNext]_vars

(***************************************************************************)
(* C37  Client replica tracks the hub: when the player process has applied *)
(* every line the hub wrote to it, its board, its piles and every player's *)
(* tokens, discounts and points are the hub's, and no line of the hub is   *)
(* turned down as a communication error.                                   *)
(***************************************************************************)
C37_ReplicaTracks ==
    probe.pc = "replica"
        => /\ probe.result # "COMMUNICATION_ERROR"
           /\ probe.inbox = <<>>
                 => /\ probe.game.cards = hub.cards
                    /\ probe.game.tokens = hub.tokens
                    /\ probe.game.players = hub.players

\* the player has applied a take, a wild, a purchase and the card drawn
\* after it, and nothing waits in the pipe
C37_Witness ==
    /\ probe.pc = "replica"
    /\ probe.inbox = <<>>
    /\ Len(hub.deck) < Len(BoardDeck) - MAX_CARDS_ON_BOARD
    /\ \E p, q \in 0 .. (HubPlayers - 1) :
          /\ probe.game.players[p].totalPoints > 0
          /\ probe.game.players[q].tokens[WILD] > 0
          /\ \E c \in Colours : probe.game.players[q].tokens[c] > 0

(***************************************************************************)
(* ass3/players: choose_move of shenzi, banzai and ed, called on a Game    *)
(* struct drawn at the start (the piles, the board, the player's own and   *)
(* its opponent's holdings, myId).  The move is the line the player writes *)
(* to its stdout.                                                          *)
(***************************************************************************)
PURPLE == 0
BROWN == 1
YELLOW == 2
RED == 3

\* lib/game.c
can_tokens_be_taken(g) ==
    Cardinality({i \in Colours : g.tokens[i] > 0}) >= TOKENS_PER_TAKE

get_player_token_count(player) ==
    player.tokens[PURPLE] + player.tokens[BROWN] + player.tokens[YELLOW]
    + player.tokens[RED] + player.tokens[WILD]

get_card_price_for_player(player, card) ==
    tokensNeeded(card, player, PURPLE) + tokensNeeded(card, player, BROWN)
    + tokensNeeded(card, player, YELLOW) + tokensNeeded(card, player, RED)

RECURSIVE wilds_loop(_, _, _, _)
wilds_loop(card, player, i, wildsNeeded) ==
    IF i = NUM_COLOURS THEN wildsNeeded
    ELSE IF player.tokens[i] >= tokensNeeded(card, player, i)
         THEN wilds_loop(card, player, i + 1, wildsNeeded)
         ELSE wilds_loop(card, player, i + 1,
                         wildsNeeded + (player.tokens[i] - tokensNeeded(card, player, i)))

get_wilds_needed_for_card(player, card) == wilds_loop(card, player, 0, 0)

\* player.c: the lines of tell_hub_take_wild, tell_hub_take_tokens and
\* tell_hub_purchase_card
tell_hub_take_wild == MSG_WILD_TAKE

tell_hub_take_tokens(tokens) ==
    MSG_TOKEN_TAKE \o print_ints([k \in 1 .. NUM_COLOURS |-> tokens[k - 1]])

tell_hub_purchase_card(cardId, tokens) ==
    MSG_CARD_PURCHASE \o print_int(cardId) \o <<":">>
    \o print_ints([k \in 1 .. TOKEN_SLOTS |-> tokens[k - 1]])

\* the purchase of card cardId with the tokens choose_tokens_to_buy_card picks
buy_card(g, cardId) ==
    tell_hub_purchase_card(cardId,
        choose_tokens_to_buy_card(g.players[g.myId], g.cards[cardId + 1]))

\* one pass over the colours in order: a token of each colour that has a
\* pile, is wanted and is not yet taken, up to TOKENS_PER_TAKE
RECURSIVE take_pass(_, _, _, _, _)
take_pass(g, order, i, taking, wanted) ==
    IF i > Len(order) THEN taking
    ELSE LET c == order[i]
             numTaken == Cardinality({k \in Colours : taking[k] = 1})
         IN  IF g.tokens[c] > 0 /\ taking[c] = 0 /\ wanted[c]
                /\ numTaken < TOKENS_PER_TAKE
             THEN take_pass(g, order, i + 1, [taking EXCEPT ![c] = 1], wanted)
             ELSE take_pass(g, order, i + 1, taking, wanted)

AnyColour == [c \in Colours |-> TRUE]

\* shenzi.c check_cards: the card it buys, -1 for none
RECURSIVE shenzi_check_cards(_, _, _, _, _)
shenzi_check_cards(g, cardId, highestValue, lowestPrice, cardToBuy) ==
    IF cardId >= Len(g.cards) THEN cardToBuy
    ELSE LET me == g.players[g.myId]
             card == g.cards[cardId + 1]
             cardPrice == get_card_price_for_player(me, card)
         IN  IF ~can_player_afford_card(me, card)
             THEN shenzi_check_cards(g, cardId + 1, highestValue, lowestPrice, cardToBuy)
             ELSE IF highestValue = card.value
             THEN IF cardPrice = lowestPrice
                  THEN shenzi_check_cards(g, cardId + 1, highestValue, lowestPrice, cardId)
                  ELSE IF cardPrice < lowestPrice
                  THEN shenzi_check_cards(g, cardId + 1, highestValue, cardPrice, cardId)
                  ELSE shenzi_check_cards(g, cardId + 1, highestValue, lowestPrice,
                                          cardToBuy)
             ELSE IF highestValue < card.value
             THEN shenzi_check_cards(g, cardId + 1, card.value, cardPrice, cardId)
             ELSE shenzi_check_cards(g, cardId + 1, highestValue, lowestPrice, cardToBuy)

\* shenzi.c check_tokens taking without a look at can_tokens_be_taken
shenzi_takes_unchecked(g) ==
    [ok |-> TRUE,
     line |-> tell_hub_take_tokens(
                  take_pass(g, <<PURPLE, BROWN, YELLOW, RED>>, 1, Zero4, AnyColour))]

\* shenzi.c check_tokens
shenzi_check_tokens(g) ==
    IF ~can_tokens_be_taken(g) THEN [ok |-> FALSE, line |-> <<>>]
    ELSE [ok |-> TRUE,
          line |-> tell_hub_take_tokens(
                       take_pass(g, <<PURPLE, BROWN, YELLOW, RED>>, 1, Zero4, AnyColour))]

\* shenzi.c choose_move
shenzi_choose_move(g) ==
    LET cardToBuy == shenzi_check_cards(g, 0, -1, -1, -1)
        take == shenzi_check_tokens(g)
    IN  IF cardToBuy > -1 THEN buy_card(g, cardToBuy)
        ELSE IF take.ok THEN take.line
        ELSE tell_hub_take_wild

\* banzai.c check_tokens
banzai_check_tokens(g) ==
    IF ~can_tokens_be_taken(g)
       \/ get_player_token_count(g.players[g.myId]) >= TOKENS_PER_TAKE
    THEN [ok |-> FALSE, line |-> <<>>]
    ELSE [ok |-> TRUE,
          line |-> tell_hub_take_tokens(
                       take_pass(g, <<YELLOW, BROWN, PURPLE, RED>>, 1, Zero4, AnyColour))]

\* banzai.c check_cards: the card it buys, -1 for none
RECURSIVE banzai_check_cards(_, _, _, _, _)
banzai_check_cards(g, cardId, mostWilds, highestPrice, cardToBuy) ==
    IF cardId < 0 THEN cardToBuy
    ELSE LET me == g.players[g.myId]
             card == g.cards[cardId + 1]
             cardPrice == get_card_price_for_player(me, card)
             wildsNeeded == get_wilds_needed_for_card(me, card)
         IN  IF ~(can_player_afford_card(me, card) /\ card.value > 0)
             THEN banzai_check_cards(g, cardId - 1, mostWilds, highestPrice, cardToBuy)
             ELSE IF highestPrice = cardPrice
             THEN IF wildsNeeded = mostWilds
                  THEN banzai_check_cards(g, cardId - 1, mostWilds, highestPrice, cardId)
                  ELSE IF wildsNeeded > mostWilds
                  THEN banzai_check_cards(g, cardId - 1, wildsNeeded, highestPrice, cardId)
                  ELSE banzai_check_cards(g, cardId - 1, mostWilds, highestPrice,
                                          cardToBuy)
             ELSE IF cardPrice > highestPrice
             THEN banzai_check_cards(g, cardId - 1, wildsNeeded, cardPrice, cardId)
             ELSE banzai_check_cards(g, cardId - 1, mostWilds, highestPrice, cardToBuy)

\* banzai.c choose_move
banzai_choose_move(g) ==
    LET take == banzai_check_tokens(g)
        cardToBuy == banzai_check_cards(g, Len(g.cards) - 1, -1, -1, -1)
    IN  IF take.ok THEN take.line
        ELSE IF cardToBuy > -1 THEN buy_card(g, cardToBuy)
        ELSE tell_hub_take_wild

\* ed.c identify_card's for: the cards playerId can afford, newest first
RECURSIVE ed_scan(_, _, _, _, _)
ed_scan(g, playerId, cardId, highestValue, cardToBuy) ==
    IF cardId < 0 THEN [highestValue |-> highestValue, cardToBuy |-> cardToBuy]
    ELSE IF /\ can_player_afford_card(g.players[playerId], g.cards[cardId + 1])
            /\ g.cards[cardId + 1].value >= highestValue
         THEN ed_scan(g, playerId, cardId - 1, g.cards[cardId + 1].value, cardId)
         ELSE ed_scan(g, playerId, cardId - 1, highestValue, cardToBuy)

\* ed.c identify_card's while, from the test of playerId on
RECURSIVE identify_loop(_, _, _, _)
identify_loop(g, playerId, highestValue, cardToBuy) ==
    IF playerId = g.myId THEN cardToBuy
    ELSE IF playerId < 0 /\ g.myId = g.numPlayers - 1 THEN cardToBuy
    ELSE LET p == IF playerId < 0 THEN g.numPlayers - 1 ELSE playerId
             r == ed_scan(g, p, Len(g.cards) - 1, highestValue, cardToBuy)
         IN  identify_loop(g, p - 1, r.highestValue, r.cardToBuy)

identify_card(g) == identify_loop(g, g.myId - 1, -1, -1)

\* ed.c check_tokens
ed_check_tokens(g, cardToBuy) ==
    IF ~can_tokens_be_taken(g) THEN [ok |-> FALSE, line |-> <<>>]
    ELSE LET order == <<YELLOW, RED, BROWN, PURPLE>>
             me == g.players[g.myId]
             short == [c \in Colours |->
                          /\ cardToBuy > -1
                          /\ g.cards[cardToBuy + 1].price[c]
                                - (me.discounts[c] + me.tokens[c]) > 0]
             first == take_pass(g, order, 1, Zero4, short)
         IN  [ok |-> TRUE,
              line |-> tell_hub_take_tokens(take_pass(g, order, 1, first, AnyColour))]

\* ed.c choose_move
ed_choose_move(g) ==
    LET cardToBuy == identify_card(g)
        take == ed_check_tokens(g, cardToBuy)
    IN  IF /\ cardToBuy > -1
           /\ can_player_afford_card(g.players[g.myId], g.cards[cardToBuy + 1])
        THEN buy_card(g, cardToBuy)
        ELSE IF take.ok THEN take.line
        ELSE tell_hub_take_wild

choose_move(name, g) ==
    CASE name = "shenzi" -> shenzi_choose_move(g)
      [] name = "banzai" -> banzai_choose_move(g)
      [] OTHER -> ed_choose_move(g)

\* the cards on the board: at most two of four
StrategyCards ==
    { Card(PURPLE, 1, Price(1, 0, 0, 0)), Card(BROWN, 1, Price(0, 1, 0, 0)),
      Card(YELLOW, 2, Price(1, 1, 0, 0)), Card(RED, 0, Price(0, 0, 0, 0)) }

StrategyBoards ==
    {<<>>} \cup { <<a>> : a \in StrategyCards }
           \cup { <<a, b>> : a \in StrategyCards, b \in StrategyCards }

\* tokens in a player's hand: purple, brown, yellow, red, wild
Hand(p, b, y, r, w) ==
    [s \in Slots |-> CASE s = PURPLE -> p [] s = BROWN -> b [] s = YELLOW -> y
                       [] s = RED -> r [] OTHER -> w]

StrategyHands ==
    { Hand(0, 0, 0, 0, 0), Hand(1, 0, 0, 0, 0), Hand(1, 0, 0, 0, 1),
      Hand(0, 1, 0, 0, 1), Hand(0, 0, 0, 0, 2), Hand(1, 1, 1, 0, 0),
      Hand(1, 1, 1, 1, 1) }

StrategyInit ==
    /\ HubOff
    /\ ServerOff
    /\ \E name \in {"shenzi", "banzai", "ed"}, myId \in 0 .. (HubPlayers - 1),
          piles \in [Colours -> 0 .. MaxPile], board \in StrategyBoards,
          mine \in StrategyHands, discounts \in ProbeDiscounts,
          theirs \in {Hand(0, 0, 0, 0, 0), Hand(1, 1, 1, 1, 1)} :
          probe = [pc |-> "dowhat", name |-> name, line |-> <<>>,
                   game |-> [tokens |-> piles, cards |-> board,
                             numPlayers |-> HubPlayers, myId |-> myId,
                             players |-> [p \in 0 .. (HubPlayers - 1) |->
                                 IF p = myId
                                 THEN [totalPoints |-> 0, discounts |-> discounts,
                                       tokens |-> mine]
                                 ELSE [totalPoints |-> 0, discounts |-> Zero4,
                                       tokens |-> theirs]]]]

\* player.c handle_your_turn: choose_move writes its line
StrategyMove ==
    /\ probe.pc = "dowhat"
    /\ probe' = [probe EXCEPT !.pc = "moved",
                              !.line = choose_move(probe.name, probe.game)]
    /\ UNCHANGED <<hubVars, srvVars>>

SpecStrategy == StrategyInit /\ [][StrategyMove]_vars

(***************************************************************************)
(* C38  Strategies only emit legal moves: the line shenzi, banzai or ed    *)
(* writes on a dowhat is wild, a take the board allows (three different    *)
(* colours, each with a pile), or the purchase of a card on the board the  *)
(* player can afford with exactly the tokens choose_tokens_to_buy_card     *)
(* picks; the hub's handle_input accepts it.                               *)
(***************************************************************************)
C38_LegalMoves ==
    probe.pc = "moved"
        => LET g == probe.game
               me == g.players[g.myId]
               m == read_input(probe.line)
           IN  /\ input_ok(g, g.myId, m)
               /\ \/ m.type = "wild"
                  \/ /\ m.type = "take"
                     /\ is_valid_token_take(g.tokens, m.tokens)
                  \/ /\ m.type = "purchase"
                     /\ m.cardId \in 0 .. (Len(g.cards) - 1)
                     /\ can_player_afford_card(me, g.cards[m.cardId + 1])
                     /\ m.tokens = choose_tokens_to_buy_card(me, g.cards[m.cardId + 1])

\* ed has bought a card with a wild among the tokens
C38_Witness ==
    /\ probe.pc = "moved"
    /\ probe.name = "ed"
    /\ read_input(probe.line).type = "purchase"
    /\ read_input(probe.line).tokens[WILD] > 0

\* the cards banzai chooses among: on the board, affordable, worth points
BanzaiChoices(g) ==
    { c \in 0 .. (Len(g.cards) - 1) :
        /\ can_player_afford_card(g.players[g.myId], g.cards[c + 1])
        /\ g.cards[c + 1].value > 0 }

\* the wilds the purchase of card c spends
WildsSpent(g, c) ==
    choose_tokens_to_buy_card(g.players[g.myId], g.cards[c + 1])[WILD]

(***************************************************************************)
(* C39  Banzai's tie-break: the card banzai buys is, among the affordable  *)
(* cards worth points with the highest discounted price, the one whose     *)
(* purchase spends the most wilds, and the oldest of those; and            *)
(* get_wilds_needed_for_card returns that number of wilds, never a         *)
(* negative one.                                                           *)
(***************************************************************************)
C39_BanzaiTieBreak ==
    (probe.pc = "moved" /\ probe.name = "banzai")
        => LET g == probe.game
               me == g.players[g.myId]
               m == read_input(probe.line)
               price(c) == get_card_price_for_player(me, g.cards[c + 1])
           IN  /\ \A c \in BanzaiChoices(g) :
                     /\ get_wilds_needed_for_card(me, g.cards[c + 1]) >= 0
                     /\ get_wilds_needed_for_card(me, g.cards[c + 1]) = WildsSpent(g, c)
               /\ m.type = "purchase"
                     => /\ m.cardId \in BanzaiChoices(g)
                        /\ \A c \in BanzaiChoices(g) :
                              /\ price(c) <= price(m.cardId)
                              /\ price(c) = price(m.cardId)
                                    => /\ WildsSpent(g, c) <= WildsSpent(g, m.cardId)
                                       /\ WildsSpent(g, c) = WildsSpent(g, m.cardId)
                                             => m.cardId <= c


=============================================================================
